---- MODULE Spec2Model ----
(***************************************************************************)
(* The vacation ledger engine of ferieplan (src/src/lib/                    *)
(* vacationCalculations.ts): the batch evaluator computeAllStatuses, run    *)
(* one timeline event and one consumed date at a time, and the snapshot     *)
(* getVacationYearBalances, run one consumed date at a time.                *)
(*                                                                         *)
(* An ISO date string 'yyyy-MM-dd' is the integer yyyymmdd: the code        *)
(* compares date strings with <, <= and localeCompare, and the integers     *)
(* order the same way. A JavaScript Date is a record [year, month, day]     *)
(* with the month counted from 0, as getMonth() counts it.                  *)
(*                                                                         *)
(* Amounts of days are integers in hundredths of a day (2.08 days = 208):   *)
(* every amount the engine adds or subtracts is then exact.                 *)
(***************************************************************************)
EXTENDS Integers, Sequences, FiniteSets, TLC

\* ------------------------------------------------------------------ bounds

\* The most dates a user has selected in a run.
MaxSelected == 4

\* ------------------------------------------------------- program constants

\* One day of consumption (let remaining = 1), in hundredths.
OneDay == 100
\* The monthly accrual 2.08, in hundredths.
MonthlyEarn == 208
\* const EPS = 1e-9: below one hundredth, so x > EPS iff x > 0 here.
EPS == 0

\* ------------------------------------------------------------------- dates

MkDate(y, m, d) == y * 10000 + m * 100 + d

\* parseISO: the local Date of an ISO date string.
parseISO(s) == [year |-> s \div 10000, month |-> ((s \div 100) % 100) - 1, day |-> s % 100]

\* format(date, 'yyyy-MM-dd')
format(dt) == MkDate(dt.year, dt.month + 1, dt.day)

startOfMonth(dt) == [dt EXCEPT !.day = 1]

IsLeap(y) == (y % 4 = 0 /\ y % 100 # 0) \/ y % 400 = 0

\* Days in month m (counted from 0) of year y.
DaysInMonth(y, m) ==
  IF m = 1 THEN (IF IsLeap(y) THEN 29 ELSE 28)
  ELSE IF m \in {3, 5, 8, 10} THEN 30 ELSE 31

\* addMonths(date, n): the same day n months later, clamped to the month's end.
addMonths(dt, n) ==
  LET total == dt.year * 12 + dt.month + n
      y == total \div 12
      m == total % 12
      dim == DaysInMonth(y, m)
  IN [year |-> y, month |-> m, day |-> IF dt.day > dim THEN dim ELSE dt.day]

\* differenceInMonths(later, earlier): full months between two dates.
differenceInMonths(l, r) ==
  LET diff == (l.year - r.year) * 12 + (l.month - r.month)
  IN IF diff > 0 /\ l.day < r.day THEN diff - 1
     ELSE IF diff < 0 /\ l.day > r.day THEN diff + 1
     ELSE diff

\* Days since 1970-01-01 of a Date (the proleptic Gregorian calendar).
DayNumber(dt) ==
  LET m == dt.month + 1
      y == IF m <= 2 THEN dt.year - 1 ELSE dt.year
      era == y \div 400
      yoe == y - era * 400
      mp == (m + 9) % 12
      doy == (153 * mp + 2) \div 5 + dt.day - 1
      doe == yoe * 365 + yoe \div 4 - yoe \div 100 + doy
  IN era * 146097 + doe - 719468

\* getDay(): 0 = Sunday .. 6 = Saturday (1970-01-01 was a Thursday).
getDay(dt) == (DayNumber(dt) + 4) % 7

isWeekend(dt) == getDay(dt) \in {0, 6}

Min(a, b) == IF a < b THEN a ELSE b
Max(a, b) == IF a > b THEN a ELSE b

\* Array.prototype.sort() of date strings: ascending (insertion sort).
RECURSIVE InsertDate(_, _)
InsertDate(s, d) ==
  IF s = <<>> THEN <<d>>
  ELSE IF d < Head(s) THEN <<d>> \o s
  ELSE <<Head(s)>> \o InsertDate(Tail(s), d)

\* [...dates].sort() with the sort left out.
SortDates_Unsorted(s) == s

RECURSIVE SortDates(_)
SortDates(s) == IF s = <<>> THEN <<>> ELSE InsertDate(SortDates(Tail(s)), Head(s))

Range(s) == {s[i] : i \in 1..Len(s)}

\* --------------------------------------------------------- period model

\* getVacationYearForDate with the month taken as counted from 1.
getVacationYearForDate_MonthFromOne(dateStr) ==
  LET d == parseISO(dateStr)
      month == d.month
      year == d.year
  IN IF month >= 9 THEN year ELSE year - 1

getVacationYearForDate(dateStr) ==
  LET d == parseISO(dateStr)
      month == d.month
      year == d.year
  IN IF month >= 8 THEN year ELSE year - 1

obtainPeriod(vacationYear) ==
  [start |-> MkDate(vacationYear, 9, 1), end |-> MkDate(vacationYear + 1, 9, 1)]

\* usablePeriodEnd on Dec 31 of the period's first year.
usablePeriodEnd_SameYear(vacationYear) == MkDate(vacationYear, 12, 31)

usablePeriodEnd(vacationYear) == MkDate(vacationYear + 1, 12, 31)

\* ------------------------------------------------------- accrual rules

\* earnedInVacationYear without the two roundings to the start of the month.
earnedInVacationYear_NoStartOfMonth(vacationYear, atDate, employmentStartDate) ==
  LET obtain == obtainPeriod(vacationYear)
      effectiveStart == IF obtain.start > employmentStartDate
                        THEN obtain.start ELSE employmentStartDate
      nextMonthStart == format(addMonths(parseISO(atDate), 1))
      effectiveEnd == IF obtain.end < nextMonthStart THEN obtain.end ELSE nextMonthStart
      months == differenceInMonths(parseISO(effectiveEnd), parseISO(effectiveStart))
  IN IF effectiveStart > effectiveEnd THEN 0
     ELSE IF months <= 0 THEN 0
     ELSE months * MonthlyEarn

\* earnedInVacationYear crediting only the months before the evaluation month.
earnedInVacationYear_MonthNotCredited(vacationYear, atDate, employmentStartDate) ==
  LET obtain == obtainPeriod(vacationYear)
      employmentStartMonthStart == format(startOfMonth(parseISO(employmentStartDate)))
      effectiveStart == IF obtain.start > employmentStartMonthStart
                        THEN obtain.start ELSE employmentStartMonthStart
      nextMonthStart == format(startOfMonth(parseISO(atDate)))
      effectiveEnd == IF obtain.end < nextMonthStart THEN obtain.end ELSE nextMonthStart
      months == differenceInMonths(parseISO(effectiveEnd), parseISO(effectiveStart))
  IN IF effectiveStart > effectiveEnd THEN 0
     ELSE IF months <= 0 THEN 0
     ELSE months * MonthlyEarn

earnedInVacationYear(vacationYear, atDate, employmentStartDate) ==
  LET obtain == obtainPeriod(vacationYear)
      employmentStartMonthStart == format(startOfMonth(parseISO(employmentStartDate)))
      effectiveStart == IF obtain.start > employmentStartMonthStart
                        THEN obtain.start ELSE employmentStartMonthStart
      nextMonthStart == format(addMonths(startOfMonth(parseISO(atDate)), 1))
      effectiveEnd == IF obtain.end < nextMonthStart THEN obtain.end ELSE nextMonthStart
      months == differenceInMonths(parseISO(effectiveEnd), parseISO(effectiveStart))
  IN IF effectiveStart > effectiveEnd THEN 0
     ELSE IF months <= 0 THEN 0
     ELSE months * MonthlyEarn

extraInVacationYear(vacationYear, atDate, employmentStartDate, extraDaysMonth, extraDaysCount) ==
  LET obtain == obtainPeriod(vacationYear)
      effectiveStart == IF obtain.start > employmentStartDate
                        THEN obtain.start ELSE employmentStartDate
      Grant(y) ==
        LET extraDateStr == MkDate(y, extraDaysMonth, 1)
        IN IF extraDateStr >= effectiveStart /\ extraDateStr <= obtain.end
              /\ extraDateStr <= atDate
           THEN extraDaysCount ELSE 0
  IN Grant(vacationYear) + Grant(vacationYear + 1)

\* ----------------------------------------------- status computation helpers

\* classifyStaticDates not skipping the selected dates.
classifyStaticDates_SelectedNotSkipped(dates, startDate, enabledHolidays, selectedSet) ==
  [d \in dates |->
     IF d < startDate THEN "before-start"
     ELSE IF d \in enabledHolidays THEN "holiday"
     ELSE IF isWeekend(parseISO(d)) THEN "weekend" ELSE "normal"]

\* classifyStaticDates: the statuses that need no balance. The result is
\* the object `result`, a function from its keys to their statuses.
classifyStaticDates(dates, startDate, enabledHolidays, selectedSet) ==
  LET keys == {d \in dates : d < startDate \/ d \in enabledHolidays \/ d \notin selectedSet}
  IN [d \in keys |->
        IF d < startDate THEN "before-start"
        ELSE IF d \in enabledHolidays THEN "holiday"
        ELSE IF isWeekend(parseISO(d)) THEN "weekend" ELSE "normal"]

\* The loop of classifyStaticDates over the array `dates` in its order,
\* writing into the object `result`.
RECURSIVE ClassifyLoop(_, _, _, _, _)
ClassifyLoop(dates, startDate, enabledHolidays, selectedSet, result) ==
  IF dates = <<>> THEN result
  ELSE LET dateStr == Head(dates)
           Put(status) == [k \in (DOMAIN result) \cup {dateStr} |->
                             IF k = dateStr THEN status ELSE result[k]]
           next == IF dateStr < startDate THEN Put("before-start")
                   ELSE IF dateStr \in enabledHolidays THEN Put("holiday")
                   ELSE IF dateStr \notin selectedSet
                        THEN Put(IF isWeekend(parseISO(dateStr)) THEN "weekend" ELSE "normal")
                        ELSE result
       IN ClassifyLoop(Tail(dates), startDate, enabledHolidays, selectedSet, next)

\* The comparator of events.sort comparing the dates alone.
EventBefore_DateOnly(a, b) == a.date < b.date

\* The comparator of events.sort: by date, then by priority.
EventBefore(a, b) == a.date < b.date \/ (a.date = b.date /\ a.priority < b.priority)

\* Array.prototype.sort(comparator) is stable: an event goes after every
\* event that does not compare greater.
RECURSIVE InsertEvent(_, _)
InsertEvent(s, e) ==
  IF s = <<>> THEN <<e>>
  ELSE IF EventBefore(e, Head(s)) THEN <<e>> \o s
  ELSE <<Head(s)>> \o InsertEvent(Tail(s), e)

RECURSIVE SortEvents(_)
SortEvents(s) ==
  IF s = <<>> THEN <<>>
  ELSE InsertEvent(SortEvents(SubSeq(s, 1, Len(s) - 1)), s[Len(s)])

\* The events of one iteration with the earn loop running one month longer.
YearEvents_OneMonthMore(firstVacationYear, i, employmentMonthStart, startDate, extraDaysMonth) ==
  LET year == firstVacationYear + i
      obtainStart == MkDate(year, 9, 1)
      obtainEndStr == MkDate(year + 1, 9, 1)
      effectiveEarnStart == IF obtainStart > employmentMonthStart
                            THEN obtainStart ELSE employmentMonthStart
      effectiveEarnStartDate == parseISO(effectiveEarnStart)
      obtainEndDate == parseISO(obtainEndStr)
      monthCount == differenceInMonths(obtainEndDate, effectiveEarnStartDate)
      earn == [m \in 1..(monthCount + 1) |->
                 [date |-> format(addMonths(effectiveEarnStartDate, m - 1)),
                  priority |-> 0, yearIndex |-> i, kind |-> "earn"]]
      effectiveExtraStart == IF obtainStart > startDate THEN obtainStart ELSE startDate
      Extra(calendarYear) ==
        LET extraDateStr == MkDate(calendarYear, extraDaysMonth, 1)
        IN IF extraDateStr >= effectiveExtraStart /\ extraDateStr <= obtainEndStr
           THEN <<[date |-> extraDateStr, priority |-> 0, yearIndex |-> i, kind |-> "extra"]>>
           ELSE <<>>
      expiry == <<[date |-> MkDate(year + 2, 1, 1), priority |-> 1,
                   yearIndex |-> i, kind |-> "expiry"]>>
  IN earn \o Extra(year) \o Extra(year + 1) \o expiry

\* The events of one iteration with the expiry dated a year early, on Jan 1
\* of the year after the period's first.
YearEvents_ExpiryYearEarly(firstVacationYear, i, employmentMonthStart, startDate, extraDaysMonth) ==
  LET year == firstVacationYear + i
      obtainStart == MkDate(year, 9, 1)
      obtainEndStr == MkDate(year + 1, 9, 1)
      effectiveEarnStart == IF obtainStart > employmentMonthStart
                            THEN obtainStart ELSE employmentMonthStart
      effectiveEarnStartDate == parseISO(effectiveEarnStart)
      obtainEndDate == parseISO(obtainEndStr)
      monthCount == differenceInMonths(obtainEndDate, effectiveEarnStartDate)
      earn == [m \in 1..monthCount |->
                 [date |-> format(addMonths(effectiveEarnStartDate, m - 1)),
                  priority |-> 0, yearIndex |-> i, kind |-> "earn"]]
      effectiveExtraStart == IF obtainStart > startDate THEN obtainStart ELSE startDate
      Extra(calendarYear) ==
        LET extraDateStr == MkDate(calendarYear, extraDaysMonth, 1)
        IN IF extraDateStr >= effectiveExtraStart /\ extraDateStr <= obtainEndStr
           THEN <<[date |-> extraDateStr, priority |-> 0, yearIndex |-> i, kind |-> "extra"]>>
           ELSE <<>>
      expiry == <<[date |-> MkDate(year + 1, 1, 1), priority |-> 1,
                   yearIndex |-> i, kind |-> "expiry"]>>
  IN earn \o Extra(year) \o Extra(year + 1) \o expiry

\* The events one iteration of buildTimelineEvents' loop pushes for the
\* vacation year at index i (counted from 0), in the order it pushes them.
YearEvents(firstVacationYear, i, employmentMonthStart, startDate, extraDaysMonth) ==
  LET year == firstVacationYear + i
      obtainStart == MkDate(year, 9, 1)
      obtainEndStr == MkDate(year + 1, 9, 1)
      effectiveEarnStart == IF obtainStart > employmentMonthStart
                            THEN obtainStart ELSE employmentMonthStart
      effectiveEarnStartDate == parseISO(effectiveEarnStart)
      obtainEndDate == parseISO(obtainEndStr)
      monthCount == differenceInMonths(obtainEndDate, effectiveEarnStartDate)
      earn == [m \in 1..monthCount |->
                 [date |-> format(addMonths(effectiveEarnStartDate, m - 1)),
                  priority |-> 0, yearIndex |-> i, kind |-> "earn"]]
      effectiveExtraStart == IF obtainStart > startDate THEN obtainStart ELSE startDate
      Extra(calendarYear) ==
        LET extraDateStr == MkDate(calendarYear, extraDaysMonth, 1)
        IN IF extraDateStr >= effectiveExtraStart /\ extraDateStr <= obtainEndStr
           THEN <<[date |-> extraDateStr, priority |-> 0, yearIndex |-> i, kind |-> "extra"]>>
           ELSE <<>>
      expiry == <<[date |-> MkDate(year + 2, 1, 1), priority |-> 1,
                   yearIndex |-> i, kind |-> "expiry"]>>
  IN earn \o Extra(year) \o Extra(year + 1) \o expiry

RECURSIVE PushedEvents(_, _, _, _, _)
PushedEvents(firstVacationYear, vacationYearCount, employmentMonthStart, startDate, extraDaysMonth) ==
  IF vacationYearCount <= 0 THEN <<>>
  ELSE PushedEvents(firstVacationYear, vacationYearCount - 1, employmentMonthStart,
                    startDate, extraDaysMonth)
       \o YearEvents(firstVacationYear, vacationYearCount - 1, employmentMonthStart,
                     startDate, extraDaysMonth)

buildTimelineEvents(firstVacationYear, vacationYearCount, employmentMonthStart, startDate, extraDaysMonth) ==
  SortEvents(PushedEvents(firstVacationYear, vacationYearCount, employmentMonthStart,
                          startDate, extraDaysMonth))

\* applyEvent with an expiry that carries the cap over whatever the balance.
applyEvent_ExpiryCarriesCap(event, vacationYears, extraDaysCount, initialDays, maxTransferDays) ==
  LET t == event.yearIndex + 1
  IN CASE event.kind = "earn" ->
            [vacationYears EXCEPT ![t].earned = @ + MonthlyEarn]
       [] event.kind = "extra" ->
            [vacationYears EXCEPT ![t].extra = @ + extraDaysCount]
       [] event.kind = "expiry" ->
            LET expired == [vacationYears EXCEPT ![t].expired = TRUE]
            IN IF event.yearIndex + 1 < Len(vacationYears)
               THEN [expired EXCEPT ![t + 1].transferred = maxTransferDays]
               ELSE expired

\* applyEvent with an expiry that carries the whole balance over.
applyEvent_TransferUncapped(event, vacationYears, extraDaysCount, initialDays, maxTransferDays) ==
  LET t == event.yearIndex + 1
      target == vacationYears[t]
  IN CASE event.kind = "earn" ->
            [vacationYears EXCEPT ![t].earned = @ + MonthlyEarn]
       [] event.kind = "extra" ->
            [vacationYears EXCEPT ![t].extra = @ + extraDaysCount]
       [] event.kind = "expiry" ->
            LET balance == target.earned + target.extra + target.transferred - target.used
                           + (IF event.yearIndex = 0 THEN initialDays ELSE 0)
                expired == [vacationYears EXCEPT ![t].expired = TRUE]
            IN IF balance > 0 /\ event.yearIndex + 1 < Len(vacationYears)
               THEN [expired EXCEPT ![t + 1].transferred = balance]
               ELSE expired

\* applyEvent: the vacation years after the event. event.yearIndex counts
\* from 0; the sequence vacationYears counts from 1.
applyEvent(event, vacationYears, extraDaysCount, initialDays, maxTransferDays) ==
  LET t == event.yearIndex + 1
      target == vacationYears[t]
  IN CASE event.kind = "earn" ->
            [vacationYears EXCEPT ![t].earned = @ + MonthlyEarn]
       [] event.kind = "extra" ->
            [vacationYears EXCEPT ![t].extra = @ + extraDaysCount]
       [] event.kind = "expiry" ->
            LET balance == target.earned + target.extra + target.transferred - target.used
                           + (IF event.yearIndex = 0 THEN initialDays ELSE 0)
                expired == [vacationYears EXCEPT ![t].expired = TRUE]
            IN IF balance > 0 /\ event.yearIndex + 1 < Len(vacationYears)
               THEN [expired EXCEPT ![t + 1].transferred = Min(balance, maxTransferDays)]
               ELSE expired

\* Pass 1 of allocateDay from index i (counted from 1) on: consume from the
\* earliest years with positive balance.
RECURSIVE AllocatePass1(_, _, _, _, _)
AllocatePass1(dateStr, vacationYears, initialDays, i, remaining) ==
  IF ~(i <= Len(vacationYears) /\ remaining > EPS)
  THEN [vacationYears |-> vacationYears, remaining |-> remaining]
  ELSE LET vy == vacationYears[i]
           balance == vy.earned + vy.extra + vy.transferred - vy.used
                      + (IF i = 1 THEN initialDays ELSE 0)
       IN IF dateStr <= vy.usableEnd /\ balance > EPS
          THEN LET consume == Min(balance, remaining)
               IN AllocatePass1(dateStr, [vacationYears EXCEPT ![i].used = @ + consume],
                                initialDays, i + 1, remaining - consume)
          ELSE AllocatePass1(dateStr, vacationYears, initialDays, i + 1, remaining)

\* BorrowIndex with the earliest usable year in place of the latest.
BorrowIndex_Earliest(dateStr, vacationYears) ==
  LET usable == {i \in 1..Len(vacationYears) : dateStr <= vacationYears[i].usableEnd}
  IN IF usable = {} THEN 0 ELSE CHOOSE i \in usable : \A j \in usable : i <= j

\* The index (from 1) pass 2 charges: the latest year with dateStr <= usableEnd,
\* 0 when there is none.
BorrowIndex(dateStr, vacationYears) ==
  LET usable == {i \in 1..Len(vacationYears) : dateStr <= vacationYears[i].usableEnd}
  IN IF usable = {} THEN 0 ELSE CHOOSE i \in usable : \A j \in usable : j <= i

\* Pass 2 of allocateDay: borrow the remainder from the latest usable year.
AllocatePass2(dateStr, vacationYears, remaining) ==
  LET i == BorrowIndex(dateStr, vacationYears)
  IN IF remaining > EPS /\ i # 0
     THEN [vacationYears EXCEPT ![i].used = @ + remaining]
     ELSE vacationYears

\* allocateDay with pass 1 starting at the second year.
allocateDay_Pass1FromSecond(dateStr, vacationYears, initialDays) ==
  LET p1 == AllocatePass1(dateStr, vacationYears, initialDays, 2, OneDay)
  IN AllocatePass2(dateStr, p1.vacationYears, p1.remaining)

allocateDay(dateStr, vacationYears, initialDays) ==
  LET p1 == AllocatePass1(dateStr, vacationYears, initialDays, 1, OneDay)
  IN AllocatePass2(dateStr, p1.vacationYears, p1.remaining)

\* computeTotalActiveBalance counting the initial days for every year.
computeTotalActiveBalance_InitialEveryYear(vacationYears, initialDays) ==
  LET TotalFrom[i \in 1..(Len(vacationYears) + 1)] ==
        IF i > Len(vacationYears) THEN 0
        ELSE LET vy == vacationYears[i]
             IN (IF ~vy.expired
                 THEN vy.earned + vy.extra + vy.transferred - vy.used + initialDays
                 ELSE 0) + TotalFrom[i + 1]
  IN TotalFrom[1]

computeTotalActiveBalance(vacationYears, initialDays) ==
  LET TotalFrom[i \in 1..(Len(vacationYears) + 1)] ==
        IF i > Len(vacationYears) THEN 0
        ELSE LET vy == vacationYears[i]
             IN (IF ~vy.expired
                 THEN vy.earned + vy.extra + vy.transferred - vy.used
                      + (IF i = 1 THEN initialDays ELSE 0)
                 ELSE 0) + TotalFrom[i + 1]
  IN TotalFrom[1]

\* A JavaScript number that may be NaN or Infinity: [kind, v], v the value
\* of a finite number.
Finite(v) == [kind |-> "finite", v |-> v]
NaN == [kind |-> "NaN", v |-> 0]
Infinity == [kind |-> "Infinity", v |-> 0]

\* balance >= -advanceDays, as JavaScript compares: false against NaN,
\* true against -Infinity.
GeqNegated(balance, advanceDays) ==
  CASE advanceDays.kind = "finite" -> balance >= -advanceDays.v
    [] advanceDays.kind = "NaN" -> FALSE
    [] advanceDays.kind = "Infinity" -> TRUE

\* statusFromBalance with the allowance demanded of an ok balance.
statusFromBalance_OkAboveAdvance(balance, advanceDays) ==
  IF balance >= advanceDays.v THEN "selected-ok"
  ELSE IF GeqNegated(balance, advanceDays) THEN "selected-warning"
  ELSE "selected-overdrawn"

\* statusFromBalance with a zero balance no longer ok.
statusFromBalance_ZeroNotOk(balance, advanceDays) ==
  IF balance > 0 THEN "selected-ok"
  ELSE IF GeqNegated(balance, advanceDays) THEN "selected-warning"
  ELSE "selected-overdrawn"

statusFromBalance(balance, advanceDays) ==
  IF balance >= 0 THEN "selected-ok"
  ELSE IF GeqNegated(balance, advanceDays) THEN "selected-warning"
  ELSE "selected-overdrawn"

\* ------------------------------------------------- balance snapshot API

\* The balance objects with a year expired on the last day it is usable.
SnapshotBalances_ExpiredOnLastDay(startDate, initialDays, extraDaysMonth, extraDaysCount, atDate) ==
  LET startVacationYear == getVacationYearForDate(startDate)
      endVacationYear == getVacationYearForDate(atDate)
      n == IF endVacationYear >= startVacationYear
           THEN endVacationYear - startVacationYear + 1 ELSE 0
  IN [k \in 1..n |->
        LET year == startVacationYear + k - 1
            earned == earnedInVacationYear(year, atDate, startDate)
            extra == extraInVacationYear(year, atDate, startDate, extraDaysMonth, extraDaysCount)
        IN [year |-> year, earned |-> earned, extra |-> extra, used |-> 0,
            transferred |-> 0,
            balance |-> earned + extra + (IF k = 1 THEN initialDays ELSE 0),
            lost |-> 0, expired |-> atDate >= usablePeriodEnd(year)]]

\* The balance objects getVacationYearBalances builds, with the initial days
\* added to the earliest one.
SnapshotBalances(startDate, initialDays, extraDaysMonth, extraDaysCount, atDate) ==
  LET startVacationYear == getVacationYearForDate(startDate)
      endVacationYear == getVacationYearForDate(atDate)
      n == IF endVacationYear >= startVacationYear
           THEN endVacationYear - startVacationYear + 1 ELSE 0
  IN [k \in 1..n |->
        LET year == startVacationYear + k - 1
            earned == earnedInVacationYear(year, atDate, startDate)
            extra == extraInVacationYear(year, atDate, startDate, extraDaysMonth, extraDaysCount)
        IN [year |-> year, earned |-> earned, extra |-> extra, used |-> 0,
            transferred |-> 0,
            balance |-> earned + extra + (IF k = 1 THEN initialDays ELSE 0),
            lost |-> 0, expired |-> atDate > usablePeriodEnd(year)]]

\* Step 1's usedDates with the enabled holidays kept.
SnapshotUsedDates_HolidaysKept(selectedDates, enabledHolidays, atDate) ==
  SortDates(SelectSeq(selectedDates, LAMBDA d : d <= atDate))

\* Step 1's usedDates: the selected dates that are no enabled holiday and
\* not after atDate, sorted.
SnapshotUsedDates(selectedDates, enabledHolidays, atDate) ==
  SortDates(SelectSeq(selectedDates, LAMBDA d : d \notin enabledHolidays /\ d <= atDate))

\* Pass 1 of the snapshot's allocation loop from index i (counted from 1) on.
RECURSIVE SnapshotPass1(_, _, _, _)
SnapshotPass1(d, balances, i, remaining) ==
  IF i > Len(balances) \/ remaining <= EPS
  THEN [balances |-> balances, remaining |-> remaining]
  ELSE LET b == balances[i]
           usableEnd == usablePeriodEnd(b.year)
           available == b.balance - b.used
       IN IF d <= usableEnd /\ available > EPS
          THEN LET consume == Min(available, remaining)
               IN SnapshotPass1(d, [balances EXCEPT ![i].used = @ + consume],
                                i + 1, remaining - consume)
          ELSE SnapshotPass1(d, balances, i + 1, remaining)

\* The index (from 1) the snapshot's pass 2 charges, 0 when there is none.
SnapshotBorrowIndex(d, balances) ==
  LET usable == {i \in 1..Len(balances) : d <= usablePeriodEnd(balances[i].year)}
  IN IF usable = {} THEN 0 ELSE CHOOSE i \in usable : \A j \in usable : j <= i

SnapshotPass2(d, balances, remaining) ==
  LET i == SnapshotBorrowIndex(d, balances)
  IN IF remaining > EPS /\ i # 0
     THEN [balances EXCEPT ![i].used = @ + remaining]
     ELSE balances

\* One iteration of the loop over usedDates.
SnapshotAllocate(d, balances) ==
  LET p1 == SnapshotPass1(d, balances, 1, OneDay)
  IN SnapshotPass2(d, p1.balances, p1.remaining)

Abs(x) == IF x < 0 THEN -x ELSE x

\* Step 2: recalculate balances after usage.
SnapshotRecalculate(balances, initialDays) ==
  [i \in 1..Len(balances) |->
     LET b == balances[i]
         balance == b.earned + b.extra + b.transferred - b.used
                    + (IF i = 1 THEN initialDays ELSE 0)
     IN [b EXCEPT !.balance = IF Abs(balance) < EPS THEN 0 ELSE balance]]

\* Step 3 leaving the balance of the receiving year as it was.
RECURSIVE SnapshotTransfers_BalanceNotRaised(_, _, _)
SnapshotTransfers_BalanceNotRaised(balances, maxTransferDays, i) ==
  IF i >= Len(balances) THEN balances
  ELSE LET b == balances[i]
       IN IF b.expired /\ b.balance > 0
          THEN SnapshotTransfers_BalanceNotRaised(
                 [balances EXCEPT ![i].lost = Max(0, b.balance - maxTransferDays),
                                  ![i + 1].transferred = Min(b.balance, maxTransferDays)],
                 maxTransferDays, i + 1)
          ELSE SnapshotTransfers_BalanceNotRaised(balances, maxTransferDays, i + 1)

\* Step 3 without the cap: the whole balance is transferred.
RECURSIVE SnapshotTransfers_NoCap(_, _, _)
SnapshotTransfers_NoCap(balances, maxTransferDays, i) ==
  IF i >= Len(balances) THEN balances
  ELSE LET b == balances[i]
       IN IF b.expired /\ b.balance > 0
          THEN SnapshotTransfers_NoCap(
                 [balances EXCEPT ![i].lost = Max(0, b.balance - maxTransferDays),
                                  ![i + 1].transferred = b.balance,
                                  ![i + 1].balance = @ + b.balance],
                 maxTransferDays, i + 1)
          ELSE SnapshotTransfers_NoCap(balances, maxTransferDays, i + 1)

\* Step 3 from index i (counted from 1) on: transfers from expired years.
RECURSIVE SnapshotTransfers(_, _, _)
SnapshotTransfers(balances, maxTransferDays, i) ==
  IF i >= Len(balances) THEN balances
  ELSE LET b == balances[i]
       IN IF b.expired /\ b.balance > 0
          THEN LET transferable == Min(b.balance, maxTransferDays)
               IN SnapshotTransfers(
                    [balances EXCEPT ![i].lost = Max(0, b.balance - maxTransferDays),
                                     ![i + 1].transferred = transferable,
                                     ![i + 1].balance = @ + transferable],
                    maxTransferDays, i + 1)
          ELSE SnapshotTransfers(balances, maxTransferDays, i + 1)

\* The whole loop over usedDates from index k on.
RECURSIVE SnapshotAllocateAll(_, _, _)
SnapshotAllocateAll(usedDates, balances, k) ==
  IF k > Len(usedDates) THEN balances
  ELSE SnapshotAllocateAll(usedDates, SnapshotAllocate(usedDates[k], balances), k + 1)

getVacationYearBalances(startDate, initialDays, extraDaysMonth, extraDaysCount, selectedDates, enabledHolidays, atDate, maxTransferDays) ==
  LET initial == SnapshotBalances(startDate, initialDays, extraDaysMonth, extraDaysCount, atDate)
      usedDates == SnapshotUsedDates(selectedDates, enabledHolidays, atDate)
      allocated == SnapshotAllocateAll(usedDates, initial, 1)
  IN SnapshotTransfers(SnapshotRecalculate(allocated, initialDays), maxTransferDays, 1)

\* ------------------------------------------------------------- the inputs

\* The calendar dates of the runs: three days of August 2025, the last month
\* of period 2024's obtain window (2025-08-23 is a Saturday), the first day
\* of period 2025, the last day period 2024 is usable, and the first days
\* after it.
Dates == {20250818, 20250819, 20250823, 20250901, 20251231, 20260101, 20260102}

StartDates == {20250815, 20250901}
InitialDaysValues == {0, 92}
ExtraMonths == {5, 9}
ExtraCounts == {100}
AdvanceValues == {Finite(0), Finite(100)}
TransferCaps == {0, 100}
HolidaySets == {{}, {20260101}}
\* The `dates` argument: every date, or the dates from September 2025 on.
DateWindows == {Dates, {d \in Dates : d >= 20250901}}
\* The atDate arguments of the snapshot.
AtDates == {20250819, 20250901, 20251231, 20260101, 20260102, 20270101}

\* The ascending sequence of a set of dates (toggleDate keeps the selected
\* dates sorted).
RECURSIVE SortedSeqOf(_)
SortedSeqOf(S) ==
  IF S = {} THEN <<>>
  ELSE LET m == CHOOSE x \in S : \A y \in S : x <= y
       IN <<m>> \o SortedSeqOf(S \ {m})

SelectedSeqs == {SortedSeqOf(S) : S \in {T \in SUBSET Dates : Cardinality(T) <= MaxSelected}}

Configs ==
  [startDate : StartDates, initialDays : InitialDaysValues,
   extraDaysMonth : ExtraMonths, extraDaysCount : ExtraCounts,
   advanceDays : AdvanceValues, maxTransferDays : TransferCaps,
   selectedDates : SelectedSeqs, enabledHolidays : HolidaySets, dates : DateWindows]

\* ---------------------------------------------------------------- the state

VARIABLES
  cfg,             \* the arguments of the run
  pc,              \* "walk": in computeAllStatuses' merge walk; "returned": it has
                   \* returned; "snapshot": in getVacationYearBalances' allocation
                   \* loop; "snapshot-returned": that call has returned
  result,          \* computeAllStatuses: result
  sortedSelected,  \* computeAllStatuses: sortedSelected
  events,          \* computeAllStatuses: events
  vacationYears,   \* computeAllStatuses: vacationYears
  eventIdx,        \* computeAllStatuses: eventIdx, counted from 1
  selIdx,          \* the position in sortedSelected of the walk's next date, from 1
  balance,         \* <<the balance computed for the date last allocated>>, or <<>>
  atDate,          \* getVacationYearBalances: atDate
  balances,        \* getVacationYearBalances: balances
  usedDates,       \* getVacationYearBalances: usedDates
  usedIdx,         \* the position in usedDates of the loop's next date, from 1
  call,            \* a call of one exported function alone: [fn, args]
  ret,             \* <<the value that call returned>>, or <<>> before it returns
  cloud,           \* the file users/<uid>/ferieplan.json: [generation, json]
  state,           \* VacationProvider: state, of each client
  lastSyncedJson,  \* VacationProvider: lastSyncedJsonRef.current, of each client
  generationRef,   \* VacationProvider: generationRef.current, of each client
  syncStatus,      \* VacationProvider: syncStatus, of each client
  syncConflict,    \* VacationProvider: syncConflict is not null, of each client
  syncTask,        \* where each client's timeout or asynchronous handler stands
  closure,         \* the `state` the timeout's or handler's closure holds
  edits            \* the number of changes the users have made

walkVars == <<result, sortedSelected, events, vacationYears, eventIdx, selIdx, balance>>
snapshotVars == <<atDate, balances, usedDates, usedIdx>>
callVars == <<call, ret>>
syncVars == <<cloud, state, lastSyncedJson, generationRef, syncStatus, syncConflict,
              syncTask, closure, edits>>
vars == <<cfg, pc, result, sortedSelected, events, vacationYears, eventIdx, selIdx,
          balance, atDate, balances, usedDates, usedIdx, call, ret,
          cloud, state, lastSyncedJson, generationRef, syncStatus, syncConflict,
          syncTask, closure, edits>>

\* The inner loop of computeAllStatuses from eventIdx on: apply the events
\* dated up to dateStr.
RECURSIVE ApplyPending(_, _, _, _, _)
ApplyPending(c, evs, vys, eIdx, dateStr) ==
  IF eIdx <= Len(evs) /\ evs[eIdx].date <= dateStr
  THEN ApplyPending(c, evs,
                    applyEvent(evs[eIdx], vys, c.extraDaysCount, c.initialDays,
                               c.maxTransferDays),
                    eIdx + 1, dateStr)
  ELSE [vacationYears |-> vys, eventIdx |-> eIdx]

\* The outer loop of computeAllStatuses over the dates of sorted.
RECURSIVE WalkDates(_, _, _, _, _, _)
WalkDates(c, sorted, evs, vys, eIdx, res) ==
  IF sorted = <<>> THEN [vacationYears |-> vys, result |-> res]
  ELSE LET dateStr == Head(sorted)
           p == ApplyPending(c, evs, vys, eIdx, dateStr)
           after == allocateDay(dateStr, p.vacationYears, c.initialDays)
           classified ==
             IF dateStr \in DOMAIN res THEN res
             ELSE [d \in DOMAIN res \cup {dateStr} |->
                     IF d = dateStr
                     THEN statusFromBalance(computeTotalActiveBalance(after, c.initialDays),
                                            c.advanceDays)
                     ELSE res[d]]
       IN WalkDates(c, Tail(sorted), evs, after, p.eventIdx, classified)

\* computeAllStatuses for the arguments c, in one piece: the statuses it
\* returns, and the vacation years as its walk leaves them.
computeAllStatuses(c) ==
  LET selectedSet == Range(c.selectedDates)
      classified == classifyStaticDates(c.dates, c.startDate, c.enabledHolidays, selectedSet)
      sorted == SortDates(SelectSeq(c.selectedDates, LAMBDA d : d \notin c.enabledHolidays))
      firstVacationYear == getVacationYearForDate(c.startDate)
      lastVacationYear == getVacationYearForDate(sorted[Len(sorted)])
      vacationYearCount == lastVacationYear - firstVacationYear + 1
      employmentMonthStart == format(startOfMonth(parseISO(c.startDate)))
      evs == buildTimelineEvents(firstVacationYear, vacationYearCount,
                                 employmentMonthStart, c.startDate, c.extraDaysMonth)
      vys == [i \in 1..vacationYearCount |->
                [earned |-> 0, extra |-> 0, used |-> 0, transferred |-> 0,
                 expired |-> FALSE, usableEnd |-> MkDate(firstVacationYear + i, 12, 31)]]
  IN IF Len(sorted) = 0 THEN [vacationYears |-> <<>>, result |-> classified]
     ELSE WalkDates(c, sorted, evs, vys, 1, classified)

\* computeAllStatuses up to its merge walk, for the arguments c.
WalkInit(c) ==
  LET selectedSet == Range(c.selectedDates)
      sorted == SortDates(SelectSeq(c.selectedDates, LAMBDA d : d \notin c.enabledHolidays))
      firstVacationYear == getVacationYearForDate(c.startDate)
      lastVacationYear == getVacationYearForDate(sorted[Len(sorted)])
      vacationYearCount == lastVacationYear - firstVacationYear + 1
      employmentMonthStart == format(startOfMonth(parseISO(c.startDate)))
  IN /\ cfg = c
     /\ result = classifyStaticDates(c.dates, c.startDate, c.enabledHolidays, selectedSet)
     /\ sortedSelected = sorted
     /\ eventIdx = 1
     /\ selIdx = 1
     /\ balance = <<>>
     /\ IF Len(sorted) = 0
        THEN /\ pc = "returned"
             /\ events = <<>>
             /\ vacationYears = <<>>
        ELSE /\ pc = "walk"
             /\ events = buildTimelineEvents(firstVacationYear, vacationYearCount,
                                             employmentMonthStart, c.startDate, c.extraDaysMonth)
             /\ vacationYears =
                  [i \in 1..vacationYearCount |->
                     [earned |-> 0, extra |-> 0, used |-> 0, transferred |-> 0,
                      expired |-> FALSE, usableEnd |-> MkDate(firstVacationYear + i, 12, 31)]]

SnapshotIdle ==
  /\ atDate = 0
  /\ balances = <<>>
  /\ usedDates = <<>>
  /\ usedIdx = 1

NoCall == [fn |-> "none", args |-> <<>>]

\* The two devices of one user.
Clients == {"A", "B"}

\* null, and a value that is not null.
Null == <<>>
Some(v) == <<v>>

\* JSON.stringify of a state; '' is no state's JSON.
stringify(v) == <<v>>
EmptyString == <<>>

\* No user is signed in: the provider's state after the auth effect's
\* branch for !user, and no file in the cloud.
SyncIdle ==
  /\ cloud = [generation |-> Null, json |-> EmptyString]
  /\ state = [c \in Clients |-> "default"]
  /\ lastSyncedJson = [c \in Clients |-> EmptyString]
  /\ generationRef = [c \in Clients |-> Null]
  /\ syncStatus = [c \in Clients |-> "disconnected"]
  /\ syncConflict = [c \in Clients |-> FALSE]
  /\ syncTask = [c \in Clients |-> "idle"]
  /\ closure = [c \in Clients |-> "default"]
  /\ edits = 0

Init ==
  /\ \E c \in Configs : WalkInit(c)
  /\ SnapshotIdle
  /\ SyncIdle
  /\ call = NoCall
  /\ ret = <<>>

\* The inner loop stopping at the events of the date itself.
EventPending_StrictlyBefore ==
  /\ selIdx <= Len(sortedSelected)
  /\ eventIdx <= Len(events)
  /\ events[eventIdx].date < sortedSelected[selIdx]

\* The walk's inner loop has an event to apply before the next date.
EventPending ==
  /\ selIdx <= Len(sortedSelected)
  /\ eventIdx <= Len(events)
  /\ events[eventIdx].date <= sortedSelected[selIdx]

\* One iteration of the inner loop: apply the next event.
ApplyEvent ==
  /\ pc = "walk"
  /\ EventPending
  /\ vacationYears' = applyEvent(events[eventIdx], vacationYears, cfg.extraDaysCount,
                                 cfg.initialDays, cfg.maxTransferDays)
  /\ eventIdx' = eventIdx + 1
  /\ UNCHANGED <<cfg, pc, result, sortedSelected, events, selIdx, balance>>
  /\ UNCHANGED snapshotVars
  /\ UNCHANGED callVars
  /\ UNCHANGED syncVars

\* The rest of the outer loop's body: allocate the date and classify it.
AllocateDay ==
  /\ pc = "walk"
  /\ selIdx <= Len(sortedSelected)
  /\ ~EventPending
  /\ LET dateStr == sortedSelected[selIdx]
         after == allocateDay(dateStr, vacationYears, cfg.initialDays)
         total == computeTotalActiveBalance(after, cfg.initialDays)
     IN /\ vacationYears' = after
        /\ IF dateStr \notin DOMAIN result
           THEN /\ balance' = <<total>>
                /\ result' = [d \in DOMAIN result \cup {dateStr} |->
                                IF d = dateStr THEN statusFromBalance(total, cfg.advanceDays)
                                ELSE result[d]]
           ELSE /\ balance' = <<>>
                /\ result' = result
  /\ selIdx' = selIdx + 1
  /\ pc' = IF selIdx' > Len(sortedSelected) THEN "returned" ELSE "walk"
  /\ UNCHANGED <<cfg, sortedSelected, events, eventIdx>>
  /\ UNCHANGED snapshotVars
  /\ UNCHANGED callVars
  /\ UNCHANGED syncVars

\* getVacationYearBalances is called with atDate = at: it builds the balance
\* objects and usedDates.
SnapshotStart(at) ==
  /\ pc = "returned"
  /\ atDate' = at
  /\ balances' = SnapshotBalances(cfg.startDate, cfg.initialDays, cfg.extraDaysMonth,
                                  cfg.extraDaysCount, at)
  /\ usedDates' = SnapshotUsedDates(cfg.selectedDates, cfg.enabledHolidays, at)
  /\ usedIdx' = 1
  /\ pc' = "snapshot"
  /\ UNCHANGED cfg
  /\ UNCHANGED walkVars
  /\ UNCHANGED callVars
  /\ UNCHANGED syncVars

\* One iteration of step 1's loop over usedDates.
SnapshotAllocateStep ==
  /\ pc = "snapshot"
  /\ usedIdx <= Len(usedDates)
  /\ balances' = SnapshotAllocate(usedDates[usedIdx], balances)
  /\ usedIdx' = usedIdx + 1
  /\ UNCHANGED <<cfg, pc, atDate, usedDates>>
  /\ UNCHANGED walkVars
  /\ UNCHANGED callVars
  /\ UNCHANGED syncVars

\* Steps 2 and 3, and the return.
SnapshotFinish ==
  /\ pc = "snapshot"
  /\ usedIdx > Len(usedDates)
  /\ balances' = SnapshotTransfers(SnapshotRecalculate(balances, cfg.initialDays),
                                   cfg.maxTransferDays, 1)
  /\ pc' = "snapshot-returned"
  /\ UNCHANGED <<cfg, atDate, usedDates, usedIdx>>
  /\ UNCHANGED walkVars
  /\ UNCHANGED callVars
  /\ UNCHANGED syncVars

Next ==
  \/ ApplyEvent
  \/ AllocateDay
  \/ \E at \in AtDates : SnapshotStart(at)
  \/ SnapshotAllocateStep
  \/ SnapshotFinish

Spec == Init /\ [][Next]_vars

\* ------------------------------------------- the exported functions alone

\* The largest balance and allowance statusFromBalance is called with.
MaxBalance == 6
MaxAdvance == 6

\* The longest array passed in an order other than ascending.
MaxPermuted == 3

PureYears == 2024..2026
PureDates ==
  {MkDate(y, m, d) : y \in PureYears, m \in 1..12, d \in {1, 15}}
  \cup {MkDate(y, m, DaysInMonth(y, m - 1)) : y \in PureYears, m \in 1..12}

StatusCalls ==
  {[fn |-> "statusFromBalance", args |-> <<b, Finite(a)>>] :
     b \in (-MaxBalance)..MaxBalance, a \in 0..MaxAdvance}

EarnedCalls ==
  {[fn |-> "earnedInVacationYear", args |-> <<y, at, start>>] :
     y \in PureYears, at \in PureDates, start \in PureDates}

\* The employment starts, initial days and extra grants of the calls of
\* getVacationYearBalances and buildTimelineEvents made alone.
PureStartDates == {20240901, 20250815, 20250901}
PureInitialDays == {0, 1000}
PureExtraMonths == 1..12
PureExtraCounts == {0, 500}

\* Calls of getVacationYearBalances with nothing selected.
SnapshotCalls ==
  {[fn |-> "getVacationYearBalances", args |-> <<s, i, m, c, <<>>, {}, at, 500>>] :
     s \in PureStartDates, i \in PureInitialDays, m \in PureExtraMonths,
     c \in PureExtraCounts, at \in PureDates}

\* Calls of buildTimelineEvents as computeAllStatuses makes them, for one to
\* three vacation years.
TimelineCalls ==
  {[fn |-> "buildTimelineEvents",
    args |-> <<getVacationYearForDate(s), n, format(startOfMonth(parseISO(s))), s, m>>] :
     s \in PureStartDates, n \in 1..3, m \in PureExtraMonths}

HomePeriodCalls == {[fn |-> "getVacationYearForDate", args |-> <<d>>] : d \in PureDates}

\* Calls of statusFromBalance with an allowance that is no finite number.
NonFiniteStatusCalls ==
  {[fn |-> "statusFromBalance", args |-> <<b, a>>] :
     b \in (-MaxBalance)..MaxBalance, a \in {NaN, Infinity}}

\* The arrays of at most MaxPermuted different dates, in every order.
PermDates == {20250818, 20250819, 20250823, 20260101, 20260102}
ArraysOf(S) ==
  UNION {{a \in [1..n -> S] : \A i, j \in 1..n : a[i] = a[j] => i = j} : n \in 0..MaxPermuted}

\* Calls of computeAllStatuses with selectedDates in any order.
BatchCalls ==
  {[fn |-> "computeAllStatuses",
    args |-> <<[startDate |-> s, initialDays |-> i, extraDaysMonth |-> 5, extraDaysCount |-> 100,
                advanceDays |-> Finite(0), maxTransferDays |-> 100, selectedDates |-> sel,
                enabledHolidays |-> h, dates |-> Dates]>>] :
     s \in StartDates, i \in InitialDaysValues, sel \in ArraysOf(PermDates), h \in HolidaySets}

\* Calls of getVacationYearBalances with selectedDates in any order.
SnapshotOrderCalls ==
  {[fn |-> "getVacationYearBalances", args |-> <<s, i, 5, 100, sel, h, at, 100>>] :
     s \in StartDates, i \in InitialDaysValues, sel \in ArraysOf(PermDates),
     h \in HolidaySets, at \in {20250819, 20260102}}

\* Calls of classifyStaticDates with `dates` in any order.
ClassifyCalls ==
  {[fn |-> "classifyStaticDates", args |-> <<ds, s, h, sel>>] :
     ds \in ArraysOf(PermDates), s \in StartDates, h \in HolidaySets,
     sel \in {{}, {20250819, 20250823}}}

\* The call made: one of the calls above.
PureCall(c) ==
  \/ c \in BatchCalls
  \/ c \in SnapshotOrderCalls
  \/ c \in ClassifyCalls
  \/ c \in StatusCalls
  \/ c \in NonFiniteStatusCalls
  \/ c \in EarnedCalls
  \/ c \in SnapshotCalls
  \/ c \in TimelineCalls
  \/ c \in HomePeriodCalls

\* defaultState of the VacationProvider, started on 2025-09-01.
DefaultConfig ==
  [startDate |-> 20250901, initialDays |-> 0, extraDaysMonth |-> 5, extraDaysCount |-> 500,
   advanceDays |-> Finite(0), maxTransferDays |-> 500, selectedDates |-> <<>>,
   enabledHolidays |-> {}, dates |-> Dates]

PureInit ==
  /\ WalkInit(DefaultConfig)
  /\ SnapshotIdle
  /\ SyncIdle
  /\ PureCall(call)
  /\ ret = <<>>

CallStatusFromBalance ==
  /\ call.fn = "statusFromBalance"
  /\ ret = <<>>
  /\ ret' = <<statusFromBalance(call.args[1], call.args[2])>>
  /\ UNCHANGED <<cfg, pc, call>>
  /\ UNCHANGED walkVars
  /\ UNCHANGED snapshotVars
  /\ UNCHANGED syncVars

CallEarnedInVacationYear ==
  /\ call.fn = "earnedInVacationYear"
  /\ ret = <<>>
  /\ ret' = <<earnedInVacationYear(call.args[1], call.args[2], call.args[3])>>
  /\ UNCHANGED <<cfg, pc, call>>
  /\ UNCHANGED walkVars
  /\ UNCHANGED snapshotVars
  /\ UNCHANGED syncVars

CallGetVacationYearBalances ==
  /\ call.fn = "getVacationYearBalances"
  /\ ret = <<>>
  /\ ret' = <<getVacationYearBalances(call.args[1], call.args[2], call.args[3], call.args[4],
                                      call.args[5], call.args[6], call.args[7], call.args[8])>>
  /\ UNCHANGED <<cfg, pc, call>>
  /\ UNCHANGED walkVars
  /\ UNCHANGED snapshotVars
  /\ UNCHANGED syncVars

CallBuildTimelineEvents ==
  /\ call.fn = "buildTimelineEvents"
  /\ ret = <<>>
  /\ ret' = <<buildTimelineEvents(call.args[1], call.args[2], call.args[3], call.args[4],
                                  call.args[5])>>
  /\ UNCHANGED <<cfg, pc, call>>
  /\ UNCHANGED walkVars
  /\ UNCHANGED snapshotVars
  /\ UNCHANGED syncVars

CallGetVacationYearForDate ==
  /\ call.fn = "getVacationYearForDate"
  /\ ret = <<>>
  /\ ret' = <<getVacationYearForDate(call.args[1])>>
  /\ UNCHANGED <<cfg, pc, call>>
  /\ UNCHANGED walkVars
  /\ UNCHANGED snapshotVars
  /\ UNCHANGED syncVars

CallComputeAllStatuses ==
  /\ call.fn = "computeAllStatuses"
  /\ ret = <<>>
  /\ ret' = <<computeAllStatuses(call.args[1])>>
  /\ UNCHANGED <<cfg, pc, call>>
  /\ UNCHANGED walkVars
  /\ UNCHANGED snapshotVars
  /\ UNCHANGED syncVars

CallClassifyStaticDates ==
  /\ call.fn = "classifyStaticDates"
  /\ ret = <<>>
  /\ ret' = <<ClassifyLoop(call.args[1], call.args[2], call.args[3], call.args[4],
                           [k \in {} |-> "normal"])>>
  /\ UNCHANGED <<cfg, pc, call>>
  /\ UNCHANGED walkVars
  /\ UNCHANGED snapshotVars
  /\ UNCHANGED syncVars

PureNext ==
  \/ CallComputeAllStatuses
  \/ CallClassifyStaticDates
  \/ CallStatusFromBalance
  \/ CallEarnedInVacationYear
  \/ CallGetVacationYearBalances
  \/ CallBuildTimelineEvents
  \/ CallGetVacationYearForDate

SpecPure == PureInit /\ [][PureNext]_vars

\* ------------------------------------------- an evaluation date advancing

\* The day after dateStr.
NextDay(dateStr) ==
  LET dt == parseISO(dateStr)
  IN IF dt.day < DaysInMonth(dt.year, dt.month)
     THEN format([dt EXCEPT !.day = @ + 1])
     ELSE format(addMonths(startOfMonth(dt), 1))

\* The employment starts of the advancing evaluations.
DayWalkStarts == {20240115, 20240901, 20250815, 20250901, 20260531}

\* earnedInVacationYear is called for a period with atDate the first day of
\* PureYears.
DaysInit ==
  /\ WalkInit(DefaultConfig)
  /\ SnapshotIdle
  /\ SyncIdle
  /\ \E y \in PureYears, start \in DayWalkStarts :
       call = [fn |-> "earnedInVacationYear", args |-> <<y, MkDate(2024, 1, 1), start>>]
  /\ ret = <<>>

\* earnedInVacationYear is called again with atDate one day later; ret holds
\* what it returns and what it returned the day before.
AdvanceAtDate ==
  /\ call.fn = "earnedInVacationYear"
  /\ ret # <<>>
  /\ parseISO(NextDay(call.args[2])).year \in PureYears
  /\ call' = [call EXCEPT !.args[2] = NextDay(call.args[2])]
  /\ ret' = <<earnedInVacationYear(call.args[1], NextDay(call.args[2]), call.args[3]), ret[1]>>
  /\ UNCHANGED <<cfg, pc>>
  /\ UNCHANGED walkVars
  /\ UNCHANGED snapshotVars
  /\ UNCHANGED syncVars

DaysNext ==
  \/ CallEarnedInVacationYear
  \/ AdvanceAtDate

SpecDays == DaysInit /\ [][DaysNext]_vars

\* ------------------------------------------------ the cloud auto-sync

\* The most changes the users make in one run.
MaxEdits == 3

\* The state the n-th change of a run leads to; resetState sets "default".
StateAfterEdit(n) ==
  CASE n = 1 -> "edit1" [] n = 2 -> "edit2" [] n = 3 -> "edit3" [] OTHER -> "edit4"

\* The auto-sync effect, run after a render of a client whose state, status,
\* conflict and last synced JSON are the arguments and whose timeout or
\* handler stands at task: its cleanup clears a timeout that has not fired,
\* and its body sets a new one when there are local changes to upload.
AutoSyncEffect(st, status, conflict, lastSynced, task, held) ==
  IF status \in {"synced", "pending"} /\ ~conflict /\ stringify(st) # lastSynced
  THEN [syncStatus |-> "pending", syncTask |-> "timer", closure |-> st]
  ELSE [syncStatus |-> status,
        syncTask |-> IF task = "timer" THEN "idle" ELSE task,
        closure |-> held]

\* Both devices are signed in and the auth effect's first sync has finished
\* on both: they hold the cloud file's state and generation.
SyncInit ==
  /\ cloud = [generation |-> Some(1), json |-> stringify("default")]
  /\ state = [c \in Clients |-> "default"]
  /\ lastSyncedJson = [c \in Clients |-> stringify("default")]
  /\ generationRef = [c \in Clients |-> Some(1)]
  /\ syncStatus = [c \in Clients |-> "synced"]
  /\ syncConflict = [c \in Clients |-> FALSE]
  /\ syncTask = [c \in Clients |-> "idle"]
  /\ closure = [c \in Clients |-> "default"]
  /\ edits = 0

SyncSpecInit ==
  /\ WalkInit(DefaultConfig)
  /\ SnapshotIdle
  /\ call = NoCall
  /\ ret = <<>>
  /\ SyncInit

\* The user of client c changes the state (setState), and the effect runs.
Edit(c) ==
  /\ edits < MaxEdits
  /\ LET st == StateAfterEdit(edits + 1)
         e == AutoSyncEffect(st, syncStatus[c], syncConflict[c], lastSyncedJson[c],
                             syncTask[c], closure[c])
     IN /\ state' = [state EXCEPT ![c] = st]
        /\ syncStatus' = [syncStatus EXCEPT ![c] = e.syncStatus]
        /\ syncTask' = [syncTask EXCEPT ![c] = e.syncTask]
        /\ closure' = [closure EXCEPT ![c] = e.closure]
  /\ edits' = edits + 1
  /\ UNCHANGED <<cloud, lastSyncedJson, generationRef, syncConflict>>
  /\ UNCHANGED <<cfg, pc>>
  /\ UNCHANGED walkVars
  /\ UNCHANGED <<atDate, balances, usedDates, usedIdx, call, ret>>

\* resetState on client c, and the effect after it.
ResetState(c) ==
  /\ edits < MaxEdits
  /\ LET e == AutoSyncEffect("default", syncStatus[c], syncConflict[c], EmptyString,
                             syncTask[c], closure[c])
     IN /\ state' = [state EXCEPT ![c] = "default"]
        /\ generationRef' = [generationRef EXCEPT ![c] = Null]
        /\ lastSyncedJson' = [lastSyncedJson EXCEPT ![c] = EmptyString]
        /\ syncStatus' = [syncStatus EXCEPT ![c] = e.syncStatus]
        /\ syncTask' = [syncTask EXCEPT ![c] = e.syncTask]
        /\ closure' = [closure EXCEPT ![c] = e.closure]
  /\ edits' = edits + 1
  /\ UNCHANGED <<cloud, syncConflict>>
  /\ UNCHANGED <<cfg, pc>>
  /\ UNCHANGED walkVars
  /\ UNCHANGED <<atDate, balances, usedDates, usedIdx, call, ret>>

\* The debounce timeout of client c fires: the callback sets 'syncing' and
\* asks for the cloud generation.
TimerFires(c) ==
  /\ syncTask[c] = "timer"
  /\ syncStatus' = [syncStatus EXCEPT ![c] = "syncing"]
  /\ syncTask' = [syncTask EXCEPT ![c] = "checking"]
  /\ UNCHANGED <<cloud, state, lastSyncedJson, generationRef, syncConflict, closure, edits>>
  /\ UNCHANGED <<cfg, pc>>
  /\ UNCHANGED walkVars
  /\ UNCHANGED <<atDate, balances, usedDates, usedIdx, call, ret>>

\* getCloudGeneration answers client c: a generation other than the
\* expected one raises the conflict, anything else goes on to the upload.
CheckGeneration(c) ==
  /\ syncTask[c] = "checking"
  /\ LET cloudGen == cloud.generation
         expectedGen == generationRef[c]
     IN IF cloudGen # Null /\ expectedGen # Null /\ cloudGen # expectedGen
        THEN /\ syncConflict' = [syncConflict EXCEPT ![c] = TRUE]
             /\ syncStatus' = [syncStatus EXCEPT ![c] = "pending"]
             /\ syncTask' = [syncTask EXCEPT ![c] = "idle"]
        ELSE /\ syncTask' = [syncTask EXCEPT ![c] = "uploading"]
             /\ UNCHANGED <<syncConflict, syncStatus>>
  /\ UNCHANGED <<cloud, state, lastSyncedJson, generationRef, closure, edits>>
  /\ UNCHANGED <<cfg, pc>>
  /\ UNCHANGED walkVars
  /\ UNCHANGED <<atDate, balances, usedDates, usedIdx, call, ret>>

\* saveStateToCloud: the file is replaced by the JSON of the state st and
\* gets a new generation.
saveStateToCloud(file, st) ==
  [generation |-> Some((IF file.generation = Null THEN 0 ELSE file.generation[1]) + 1),
   json |-> stringify(st)]

\* saveStateToCloud of client c's timeout callback completes, the callback
\* records the new generation and sets 'synced', and the effect runs.
Upload(c) ==
  /\ syncTask[c] = "uploading"
  /\ cloud' = saveStateToCloud(cloud, closure[c])
  /\ generationRef' = [generationRef EXCEPT ![c] = cloud'.generation]
  /\ lastSyncedJson' = [lastSyncedJson EXCEPT ![c] = stringify(closure[c])]
  /\ LET e == AutoSyncEffect(state[c], "synced", syncConflict[c], stringify(closure[c]),
                             "idle", closure[c])
     IN /\ syncStatus' = [syncStatus EXCEPT ![c] = e.syncStatus]
        /\ syncTask' = [syncTask EXCEPT ![c] = e.syncTask]
        /\ closure' = [closure EXCEPT ![c] = e.closure]
  /\ UNCHANGED <<state, syncConflict, edits>>
  /\ UNCHANGED <<cfg, pc>>
  /\ UNCHANGED walkVars
  /\ UNCHANGED <<atDate, balances, usedDates, usedIdx, call, ret>>

\* The user of client c answers the conflict: resolveSyncConflict sets
\* 'syncing' and starts the upload or the download.
ResolveSyncConflict(c, choice) ==
  /\ syncConflict[c]
  /\ syncTask[c] = "idle"
  /\ syncStatus' = [syncStatus EXCEPT ![c] = "syncing"]
  /\ syncTask' = [syncTask EXCEPT ![c] = IF choice = "upload" THEN "resolve-upload"
                                         ELSE "resolve-download"]
  /\ closure' = [closure EXCEPT ![c] = state[c]]
  /\ UNCHANGED <<cloud, state, lastSyncedJson, generationRef, syncConflict, edits>>
  /\ UNCHANGED <<cfg, pc>>
  /\ UNCHANGED walkVars
  /\ UNCHANGED <<atDate, balances, usedDates, usedIdx, call, ret>>

\* The upload the user chose completes; the conflict is cleared.
ResolveUpload(c) ==
  /\ syncTask[c] = "resolve-upload"
  /\ cloud' = saveStateToCloud(cloud, closure[c])
  /\ generationRef' = [generationRef EXCEPT ![c] = cloud'.generation]
  /\ lastSyncedJson' = [lastSyncedJson EXCEPT ![c] = stringify(closure[c])]
  /\ syncConflict' = [syncConflict EXCEPT ![c] = FALSE]
  /\ LET e == AutoSyncEffect(state[c], "synced", FALSE, stringify(closure[c]),
                             "idle", closure[c])
     IN /\ syncStatus' = [syncStatus EXCEPT ![c] = e.syncStatus]
        /\ syncTask' = [syncTask EXCEPT ![c] = e.syncTask]
        /\ closure' = [closure EXCEPT ![c] = e.closure]
  /\ UNCHANGED <<state, edits>>
  /\ UNCHANGED <<cfg, pc>>
  /\ UNCHANGED walkVars
  /\ UNCHANGED <<atDate, balances, usedDates, usedIdx, call, ret>>

\* The download the user chose completes: the cloud's state replaces the
\* client's; the conflict is cleared.
ResolveDownload(c) ==
  /\ syncTask[c] = "resolve-download"
  /\ state' = [state EXCEPT ![c] = cloud.json[1]]
  /\ generationRef' = [generationRef EXCEPT ![c] = cloud.generation]
  /\ lastSyncedJson' = [lastSyncedJson EXCEPT ![c] = cloud.json]
  /\ syncConflict' = [syncConflict EXCEPT ![c] = FALSE]
  /\ syncStatus' = [syncStatus EXCEPT ![c] = "synced"]
  /\ syncTask' = [syncTask EXCEPT ![c] = "idle"]
  /\ UNCHANGED <<cloud, closure, edits>>
  /\ UNCHANGED <<cfg, pc>>
  /\ UNCHANGED walkVars
  /\ UNCHANGED <<atDate, balances, usedDates, usedIdx, call, ret>>

SyncNext ==
  \/ \E c \in Clients : Edit(c)
  \/ \E c \in Clients : ResetState(c)
  \/ \E c \in Clients : TimerFires(c)
  \/ \E c \in Clients : CheckGeneration(c)
  \/ \E c \in Clients : Upload(c)
  \/ \E c \in Clients, choice \in {"upload", "download"} : ResolveSyncConflict(c, choice)
  \/ \E c \in Clients : ResolveUpload(c)
  \/ \E c \in Clients : ResolveDownload(c)

SpecSync == SyncSpecInit /\ [][SyncNext]_vars

\* ------------------------------------------------------------- the claims

SelectedStatuses == {"selected-ok", "selected-warning", "selected-overdrawn"}

\* C1: statusFromBalance maps a balance b and a finite allowance a to exactly
\* one status: selected-ok iff b >= 0, selected-warning iff b < 0 and
\* b >= -a, selected-overdrawn otherwise.
C1_StatusFromBalance ==
  (call.fn = "statusFromBalance" /\ call.args[2].kind = "finite" /\ ret # <<>>) =>
    LET b == call.args[1]
        a == call.args[2].v
    IN /\ ret[1] \in SelectedStatuses
       /\ (ret[1] = "selected-ok") <=> (b >= 0)
       /\ (ret[1] = "selected-warning") <=> (b < 0 /\ b >= -a)
       /\ (ret[1] = "selected-overdrawn") <=> (b < -a)

\* A call at the boundary b = -a < 0 has returned selected-warning.
C1_Witness ==
  /\ call.fn = "statusFromBalance"
  /\ ret # <<>>
  /\ call.args[1] < 0
  /\ call.args[1] = -call.args[2].v
  /\ ret[1] = "selected-warning"

\* The status the rules of C2 give a date that is not consumed.
StaticStatus(d) ==
  IF d < cfg.startDate THEN "before-start"
  ELSE IF d \in cfg.enabledHolidays THEN "holiday"
  ELSE IF isWeekend(parseISO(d)) THEN "weekend" ELSE "normal"

RECURSIVE SnapshotActiveTotal(_)
SnapshotActiveTotal(bs) ==
  IF bs = <<>> THEN 0
  ELSE (IF Head(bs).expired THEN 0 ELSE Head(bs).balance) + SnapshotActiveTotal(Tail(bs))

SnapshotAt(d) ==
  getVacationYearBalances(cfg.startDate, cfg.initialDays, cfg.extraDaysMonth,
                          cfg.extraDaysCount, cfg.selectedDates, cfg.enabledHolidays,
                          d, cfg.maxTransferDays)

\* C3: the balance computeAllStatuses classifies a consumed date D with
\* equals the sum of `balance` over the non-expired ledgers that
\* getVacationYearBalances returns for atDate = D. The claim says so of
\* every consumed date; it is stated here of the dates D on or after the
\* employment start alone.
C3_EvaluatorsAgree ==
  (balance # <<>> /\ sortedSelected[selIdx - 1] >= cfg.startDate) =>
    balance[1] = SnapshotActiveTotal(SnapshotAt(sortedSelected[selIdx - 1]))

\* The months of the calendar, counted from year 0.
MonthIndex(dateStr) == (dateStr \div 10000) * 12 + ((dateStr \div 100) % 100) - 1

\* The months in period P's obtain window and in the range from the month
\* of the employment start to the month of D.
CreditedMonths(P, D, start) ==
  {k \in (P * 12 + 8)..(P * 12 + 19) : MonthIndex(start) <= k /\ k <= MonthIndex(D)}

\* C10: the earned days of period P at date D are 2.08 times the number of
\* calendar months in both P's obtain window and the range from the month
\* of the employment start to the month of D, and at most 12 increments.
C10_EarnedMonths ==
  (call.fn = "earnedInVacationYear" /\ ret # <<>>) =>
    /\ ret[1] = MonthlyEarn * Cardinality(CreditedMonths(call.args[1], call.args[2], call.args[3]))
    /\ ret[1] <= 12 * MonthlyEarn

\* A call with the employment start in the middle of a month of the obtain
\* window and D in the middle of a later month of it has returned.
C10_Witness ==
  /\ call.fn = "earnedInVacationYear"
  /\ ret # <<>>
  /\ call.args[3] % 100 = 15
  /\ call.args[2] % 100 = 15
  /\ MonthIndex(call.args[3]) >= call.args[1] * 12 + 8
  /\ MonthIndex(call.args[2]) > MonthIndex(call.args[3])
  /\ MonthIndex(call.args[2]) <= call.args[1] * 12 + 19
  /\ ret[1] = MonthlyEarn * (MonthIndex(call.args[2]) - MonthIndex(call.args[3]) + 1)

\* The balance of the ledger at index i (from 1) of the walk's vacation
\* years vys.
LedgerBalance(vys, i) ==
  vys[i].earned + vys[i].extra + vys[i].transferred - vys[i].used
  + (IF i = 1 THEN cfg.initialDays ELSE 0)

\* What the snapshot's allocation loop takes as the balance of the ledger at
\* index i of bs.
Available(bs, i) == bs[i].balance - bs[i].used

\* The step is the walk's allocation of a date, the snapshot's allocation
\* of a date.
WalkAllocates == pc = "walk" /\ selIdx' = selIdx + 1
SnapshotAllocates == pc = "snapshot" /\ usedIdx' = usedIdx + 1

\* The ledgers of the walk D may draw on as the code has it (D is not after
\* their usable end), and those of the snapshot.
WalkEligible(D) == {i \in 1..Len(vacationYears) : D <= vacationYears[i].usableEnd}
SnapshotEligible(D) == {i \in 1..Len(balances) : D <= usablePeriodEnd(balances[i].year)}

\* C4: when a unit is allocated for date D, the `used` of a ledger grows
\* only if every earlier ledger eligible for D has a balance <= epsilon
\* after the allocation, and the earliest eligible ledger with a positive
\* balance is drawn from; in the walk and in the snapshot.
C4_Waterfall ==
  [][/\ WalkAllocates =>
          LET D == sortedSelected[selIdx]
              Positive == {i \in WalkEligible(D) : LedgerBalance(vacationYears, i) > EPS}
          IN /\ \A j \in 1..Len(vacationYears) :
                  vacationYears'[j].used > vacationYears[j].used =>
                    \A i \in WalkEligible(D) :
                      i < j => LedgerBalance(vacationYears', i) <= EPS
             /\ \A i \in Positive :
                  (\A h \in Positive : i <= h) =>
                     vacationYears'[i].used > vacationYears[i].used
     /\ SnapshotAllocates =>
          LET D == usedDates[usedIdx]
              Positive == {i \in SnapshotEligible(D) : Available(balances, i) > EPS}
          IN /\ \A j \in 1..Len(balances) :
                  balances'[j].used > balances[j].used =>
                    \A i \in SnapshotEligible(D) :
                      i < j => Available(balances', i) <= EPS
             /\ \A i \in Positive :
                  (\A h \in Positive : i <= h) => balances'[i].used > balances[i].used
    ]_vars

\* The walk has split a unit: the first ledger is used up by a fraction of
\* a day, and the second, still with a balance, has given the rest.
C4_Witness ==
  /\ Len(vacationYears) >= 2
  /\ vacationYears[1].used % OneDay # 0
  /\ LedgerBalance(vacationYears, 1) = 0
  /\ vacationYears[2].used > 0
  /\ LedgerBalance(vacationYears, 2) > 0

RECURSIVE SumUsed(_)
SumUsed(ledgers) ==
  IF ledgers = <<>> THEN 0 ELSE Head(ledgers).used + SumUsed(Tail(ledgers))

\* The consumed dates that are no enabled holiday and not after d.
ConsumedUpTo(d) ==
  {x \in Range(cfg.selectedDates) : x \notin cfg.enabledHolidays /\ x <= d}

\* C5: after the walk has processed k consumed dates the sum of `used` over
\* its ledgers is k days, and the sum of `used` over the ledgers the
\* snapshot returns is the number of consumed dates up to atDate.
C5_OneUnitPerDate ==
  /\ SumUsed(vacationYears) = OneDay * (selIdx - 1)
  /\ (pc = "snapshot-returned") =>
        SumUsed(balances) = OneDay * Cardinality(ConsumedUpTo(atDate))

\* The start of the usable window of the walk's ledger vy: Sep 1 of its
\* period year, the year before that of its usable end.
WindowStart(vy) == MkDate((vy.usableEnd \div 10000) - 1, 9, 1)

\* C6: the allocation of a unit for date D changes `used` only of periods
\* whose usable window [Sep 1 periodYear, Dec 31 periodYear+1] contains D.
\* The claim says so of every allocation; it is stated here of the dates D
\* on or after the employment start alone.
C6_UsableWindow ==
  [][/\ (WalkAllocates /\ sortedSelected[selIdx] >= cfg.startDate) =>
          LET D == sortedSelected[selIdx]
          IN \A i \in 1..Len(vacationYears) :
               vacationYears'[i].used # vacationYears[i].used =>
                 (WindowStart(vacationYears[i]) <= D /\ D <= vacationYears[i].usableEnd)
     /\ (SnapshotAllocates /\ usedDates[usedIdx] >= cfg.startDate) =>
          LET D == usedDates[usedIdx]
          IN \A i \in 1..Len(balances) :
               balances'[i].used # balances[i].used =>
                 (MkDate(balances[i].year, 9, 1) <= D
                  /\ D <= usablePeriodEnd(balances[i].year))
    ]_vars

\* The latest ledger of a nonempty set of ledger indices.
Latest(S) == CHOOSE i \in S : \A j \in S : j <= i

\* C7: a ledger's balance falls below zero only in an allocation for a date
\* D, only for the latest ledger eligible for D, and only when every ledger
\* eligible for D is exhausted after it; from any other ledger an
\* allocation takes no more than its balance; and the snapshot returns a
\* negative balance only of a ledger its allocation loop left negative.
C7_NegativeOnlyByBorrowing ==
  [][/\ (pc = "walk" /\ ~WalkAllocates) =>
          \A i \in 1..Len(vacationYears) :
            LedgerBalance(vacationYears', i) < 0 =>
              LedgerBalance(vacationYears', i) >= LedgerBalance(vacationYears, i)
     /\ WalkAllocates =>
          LET E == WalkEligible(sortedSelected[selIdx])
          IN \A i \in 1..Len(vacationYears) :
               /\ (LedgerBalance(vacationYears', i) < 0
                   /\ vacationYears'[i].used # vacationYears[i].used) =>
                     /\ E # {} /\ i = Latest(E)
                     /\ \A h \in E : LedgerBalance(vacationYears', h) <= EPS
               /\ (E = {} \/ i # Latest(E)) =>
                     vacationYears'[i].used - vacationYears[i].used
                       <= Max(LedgerBalance(vacationYears, i), 0)
     /\ SnapshotAllocates =>
          LET E == SnapshotEligible(usedDates[usedIdx])
          IN \A i \in 1..Len(balances) :
               /\ (Available(balances', i) < 0 /\ balances'[i].used # balances[i].used) =>
                     /\ E # {} /\ i = Latest(E)
                     /\ \A h \in E : Available(balances', h) <= EPS
               /\ (E = {} \/ i # Latest(E)) =>
                     balances'[i].used - balances[i].used <= Max(Available(balances, i), 0)
     /\ (pc = "snapshot" /\ pc' = "snapshot-returned") =>
          \A i \in 1..Len(balances) :
            balances'[i].balance < 0 => Available(balances, i) < 0
    ]_vars

\* The walk has borrowed: its latest ledger has a negative balance, and an
\* earlier one has been used up.
C7_Witness ==
  /\ Len(vacationYears) >= 2
  /\ LedgerBalance(vacationYears, Len(vacationYears)) < 0
  /\ vacationYears[1].used > 0
  /\ LedgerBalance(vacationYears, 1) = 0

\* C8: in the snapshot's result, every expired period P with a balance
\* b > 0 has a successor, whose `transferred` is min(b, transferCap), and
\* lost(P) is max(0, b - transferCap): lost(P) + transferred(successor) = b
\* and transferred(successor) <= transferCap.
C8_TransferAndLost ==
  (pc = "snapshot-returned") =>
    \A i \in 1..Len(balances) :
      (balances[i].expired /\ balances[i].balance > 0) =>
        /\ i < Len(balances)
        /\ balances[i + 1].transferred = Min(balances[i].balance, cfg.maxTransferDays)
        /\ balances[i].lost = Max(0, balances[i].balance - cfg.maxTransferDays)
        /\ balances[i].lost + balances[i + 1].transferred = balances[i].balance
        /\ balances[i + 1].transferred <= cfg.maxTransferDays

\* The snapshot has returned an expired period with more than a positive
\* cap left, and one with less.
C8_Witness ==
  /\ pc = "snapshot-returned"
  /\ cfg.maxTransferDays > 0
  /\ \E i \in 1..Len(balances) :
       /\ balances[i].expired
       /\ balances[i].balance > cfg.maxTransferDays
       /\ balances[i].lost > 0
  /\ \E i \in 1..Len(balances) :
       /\ balances[i].expired
       /\ balances[i].balance > 0
       /\ balances[i].balance < cfg.maxTransferDays
       /\ balances[i + 1].transferred = balances[i].balance

\* C9: when a period expires with a balance <= 0, nothing is transferred
\* and nothing is lost: in the walk the expiry event changes nothing but
\* the period's `expired`, and the successor's `transferred` is 0 after
\* it; in the snapshot's result such a period has lost = 0, its successor
\* has transferred = 0 and a balance of earned + extra - used.
C9_NoTransferOfDebt ==
  [][/\ (pc = "walk" /\ eventIdx' = eventIdx + 1 /\ events[eventIdx].kind = "expiry"
         /\ LedgerBalance(vacationYears, events[eventIdx].yearIndex + 1) <= 0) =>
          LET t == events[eventIdx].yearIndex + 1
          IN /\ vacationYears' = [vacationYears EXCEPT ![t].expired = TRUE]
             /\ t < Len(vacationYears) => vacationYears'[t + 1].transferred = 0
     /\ (pc' = "snapshot-returned") =>
          \A i \in 1..Len(balances') :
            (balances'[i].expired /\ balances'[i].balance <= 0) =>
              /\ balances'[i].lost = 0
              /\ i < Len(balances') =>
                   /\ balances'[i + 1].transferred = 0
                   /\ balances'[i + 1].balance =
                        balances'[i + 1].earned + balances'[i + 1].extra
                        - balances'[i + 1].used
    ]_vars

\* The walk has expired a period that was used up, under a positive cap,
\* and the snapshot has returned such a period.
C9_Witness ==
  /\ cfg.maxTransferDays > 0
  /\ Len(vacationYears) >= 2
  /\ vacationYears[1].expired
  /\ vacationYears[1].used > 0
  /\ LedgerBalance(vacationYears, 1) <= 0
  /\ vacationYears[2].transferred = 0
  /\ pc = "snapshot-returned"
  /\ Len(balances) >= 2
  /\ balances[1].expired
  /\ balances[1].balance <= 0
  /\ balances[1].used > 0

\* The call is the scenario of C11: employment start 2025-09-01, no initial
\* days, as-of date 2026-01-01, and it has returned with no extra granted.
C11_Scenario ==
  /\ call.fn = "getVacationYearBalances"
  /\ call.args[1] = 20250901
  /\ call.args[2] = 0
  /\ call.args[7] = 20260101
  /\ ret # <<>>
  /\ \A i \in 1..Len(ret[1]) : ret[1][i].extra = 0

\* C11 as the claim has it: in the scenario the snapshot returns a single
\* ledger of period 2025, not expired, with 4 increments earned (8.32).
C11_FourIncrements ==
  C11_Scenario =>
    /\ Len(ret[1]) = 1
    /\ ret[1][1].year = 2025
    /\ ~ret[1][1].expired
    /\ ret[1][1].earned = 4 * MonthlyEarn

\* C11, amended: in the scenario the snapshot returns a single ledger of
\* period 2025, not expired, with 5 increments earned (10.40: September to
\* January, the month of the as-of date credited too).
C11_FiveIncrements ==
  C11_Scenario =>
    /\ Len(ret[1]) = 1
    /\ ret[1][1].year = 2025
    /\ ~ret[1][1].expired
    /\ ret[1][1].earned = 5 * MonthlyEarn

\* The scenario's call has returned, with the extra grant month still ahead.
C11_Witness ==
  /\ C11_Scenario
  /\ call.args[3] = 5
  /\ call.args[4] > 0
  /\ ret[1][1].earned = 1040

\* C12: for a fixed configuration and period, as atDate advances by a day
\* the earned days do not decrease, stay the same unless the new atDate is
\* the first day of a month, and change by one increment of 2.08 only.
C12_MonotonicEarning ==
  (call.fn = "earnedInVacationYear" /\ Len(ret) = 2) =>
    /\ ret[1] >= ret[2]
    /\ (call.args[2] % 100 # 1) => ret[1] = ret[2]
    /\ (ret[1] # ret[2]) => ret[1] = ret[2] + MonthlyEarn

\* atDate has crossed into a month that earns, after an employment start in
\* the middle of a month; and it has crossed into one that earns nothing.
C12_Witness ==
  /\ call.fn = "earnedInVacationYear"
  /\ Len(ret) = 2
  /\ call.args[3] % 100 = 15
  /\ call.args[2] % 100 = 1
  /\ ret[2] > 0
  /\ ret[1] = ret[2] + MonthlyEarn

\* The number of 'extra' events of the timeline evs for the vacation year
\* at index i (from 0).
ExtraEvents(evs, i) ==
  Cardinality({k \in 1..Len(evs) : evs[k].kind = "extra" /\ evs[k].yearIndex = i})

\* C13: for every extra grant month and every period the extra grant is
\* credited at most once: a timeline holds zero or one 'extra' event per
\* period, dated inside the period's obtain window [Sep 1 P, Sep 1 P+1) and
\* not before the employment start, and each ledger of the snapshot has an
\* `extra` of 0 or extraDaysCount.
C13_ExtraAtMostOnce ==
  /\ (call.fn = "buildTimelineEvents" /\ ret # <<>>) =>
       /\ \A i \in 0..(call.args[2] - 1) : ExtraEvents(ret[1], i) <= 1
       /\ \A k \in 1..Len(ret[1]) :
            ret[1][k].kind = "extra" =>
              LET P == call.args[1] + ret[1][k].yearIndex
              IN /\ MkDate(P, 9, 1) <= ret[1][k].date
                 /\ ret[1][k].date < MkDate(P + 1, 9, 1)
                 /\ ret[1][k].date >= call.args[4]
  /\ (call.fn = "getVacationYearBalances" /\ ret # <<>>) =>
       \A i \in 1..Len(ret[1]) : ret[1][i].extra \in {0, call.args[4]}

\* The balance of the ledger at index i (from 1) of the snapshot's bs, with
\* the initial days counted for the earliest ledger alone.
SnapshotLedgerBalance(bs, i) ==
  bs[i].earned + bs[i].extra + bs[i].transferred - bs[i].used
  + (IF i = 1 THEN cfg.initialDays ELSE 0)

\* The sum of LedgerBalance over the walk's ledgers from index i on that
\* are not expired.
RECURSIVE ActiveSum(_, _)
ActiveSum(vys, i) ==
  IF i > Len(vys) THEN 0
  ELSE (IF vys[i].expired THEN 0 ELSE LedgerBalance(vys, i)) + ActiveSum(vys, i + 1)

\* The earliest of the ledgers S with a positive balance under Bal, in a set.
EarliestPositive(S, Bal(_)) ==
  {i \in S : Bal(i) > 0 /\ \A h \in S : (Bal(h) > 0) => i <= h}

\* C14: initialDays counts in the balance of the earliest ledger and of no
\* other, wherever a balance is computed: the total that classifies a date
\* is the sum over the non-expired ledgers with the initial days in the
\* earliest alone; an expiry transfers min(balance, cap) of that balance;
\* an allocation draws min(balance, 1 day) at least from the earliest
\* eligible ledger that has such a balance; and the snapshot returns that
\* balance for every ledger.
C14_InitialDaysEarliestOnly ==
  [][/\ (WalkAllocates /\ balance' # <<>>) => balance'[1] = ActiveSum(vacationYears', 1)
     /\ (pc = "walk" /\ eventIdx' = eventIdx + 1 /\ events[eventIdx].kind = "expiry"
         /\ events[eventIdx].yearIndex + 1 < Len(vacationYears)) =>
          LET t == events[eventIdx].yearIndex + 1
              B == LedgerBalance(vacationYears, t)
          IN vacationYears'[t + 1].transferred =
               IF B > 0 THEN Min(B, cfg.maxTransferDays)
               ELSE vacationYears[t + 1].transferred
     /\ WalkAllocates =>
          LET Bal(i) == LedgerBalance(vacationYears, i)
          IN \A i \in EarliestPositive(WalkEligible(sortedSelected[selIdx]), Bal) :
               vacationYears'[i].used - vacationYears[i].used >= Min(Bal(i), OneDay)
     /\ SnapshotAllocates =>
          LET Bal(i) == SnapshotLedgerBalance(balances, i)
          IN \A i \in EarliestPositive(SnapshotEligible(usedDates[usedIdx]), Bal) :
               balances'[i].used - balances[i].used >= Min(Bal(i), OneDay)
     /\ (pc' = "snapshot-returned") =>
          \A i \in 1..Len(balances') :
            balances'[i].balance = SnapshotLedgerBalance(balances', i)
    ]_vars

\* A run with initial days and two ledgers: the first has given more than
\* it earned, the second has given too, a date has been classified, and the
\* snapshot has returned both.
C14_Witness ==
  /\ cfg.initialDays > 0
  /\ Len(vacationYears) >= 2
  /\ vacationYears[1].used > vacationYears[1].earned + vacationYears[1].extra
  /\ LedgerBalance(vacationYears, 1) = 0
  /\ vacationYears[2].used > 0
  /\ balance # <<>>
  /\ pc = "snapshot-returned"
  /\ Len(balances) >= 2
  /\ balances[1].used > balances[1].earned + balances[1].extra

\* The arguments of the run without the selected dates that are enabled
\* holidays.
WithoutSelectedHolidays ==
  [cfg EXCEPT !.selectedDates =
     SelectSeq(cfg.selectedDates, LAMBDA d : d \notin cfg.enabledHolidays)]

\* C15: a selected date that is an enabled holiday consumes nothing: the
\* vacation years of the walk and the statuses it returns, and the ledgers
\* the snapshot returns, are those of the run in which the date is not
\* selected.
C15_SelectedHolidayConsumesNothing ==
  /\ (pc = "returned") =>
       LET other == computeAllStatuses(WithoutSelectedHolidays)
       IN /\ vacationYears = other.vacationYears
          /\ result = other.result
  /\ (pc = "snapshot-returned") =>
       LET c == WithoutSelectedHolidays
       IN balances = getVacationYearBalances(c.startDate, c.initialDays, c.extraDaysMonth,
                                             c.extraDaysCount, c.selectedDates,
                                             c.enabledHolidays, atDate, c.maxTransferDays)

\* A run with a selected enabled holiday and two consumed dates, one before
\* the holiday and one after it, has returned, and so has the snapshot as of
\* the date after it.
C15_Witness ==
  /\ pc = "snapshot-returned"
  /\ \E h \in Range(cfg.selectedDates) \cap cfg.enabledHolidays :
       /\ h \in cfg.dates
       /\ result[h] = "holiday"
       /\ \E d1, d2 \in Range(sortedSelected) : d1 < h /\ h < d2 /\ atDate >= d2
  /\ Len(balances) >= 1

\* The home period of a date, from the digits of its month and year.
HomePeriod(dateStr) ==
  IF (dateStr \div 100) % 100 >= 9 THEN dateStr \div 10000 ELSE (dateStr \div 10000) - 1

\* C16: getVacationYearBalances returns one ledger for each period from the
\* home period of the employment start to the home period of atDate, in
\* ascending order without gaps or duplicates, and a ledger is expired iff
\* atDate is later than Dec 31 of its period year + 1.
C16_OneLedgerPerPeriod ==
  (call.fn = "getVacationYearBalances" /\ ret # <<>>) =>
    LET first == HomePeriod(call.args[1])
        last == HomePeriod(call.args[7])
    IN /\ Len(ret[1]) = Max(0, last - first + 1)
       /\ \A i \in 1..Len(ret[1]) :
            /\ ret[1][i].year = first + i - 1
            /\ ret[1][i].expired <=> (call.args[7] > MkDate(ret[1][i].year + 1, 12, 31))

\* A call has returned three ledgers, the first expired and the second on
\* the last day it is usable.
C16_Witness ==
  /\ call.fn = "getVacationYearBalances"
  /\ ret # <<>>
  /\ Len(ret[1]) = 3
  /\ ret[1][1].expired
  /\ ~ret[1][2].expired
  /\ call.args[7] = MkDate(ret[1][2].year + 1, 12, 31)

\* C17: an advanceDays that is no finite number (NaN or Infinity) is
\* treated as 0: a negative balance is classified selected-overdrawn, never
\* selected-warning.
C17_NonFiniteAdvanceIsZero ==
  (call.fn = "statusFromBalance" /\ call.args[2].kind # "finite" /\ ret # <<>>) =>
    /\ (call.args[1] >= 0) => ret[1] = "selected-ok"
    /\ (call.args[1] < 0) => ret[1] = "selected-overdrawn"

\* C18: every ledger getVacationYearBalances returns has balance = earned +
\* extra + transferred - used, plus initialDays for the earliest ledger.
C18_BalanceIdentity ==
  (pc = "snapshot-returned") =>
    \A i \in 1..Len(balances) :
      balances[i].balance =
        balances[i].earned + balances[i].extra + balances[i].transferred - balances[i].used
        + (IF i = 1 THEN cfg.initialDays ELSE 0)

\* The snapshot has returned a chain of two expired periods with initial
\* days: the second received a transfer and passed one on, and days were
\* used from both.
C18_Witness ==
  /\ pc = "snapshot-returned"
  /\ cfg.initialDays > 0
  /\ Len(balances) = 3
  /\ balances[1].expired /\ balances[2].expired
  /\ balances[2].transferred > 0
  /\ balances[3].transferred > 0
  /\ balances[1].used > 0
  /\ balances[2].used > 0

\* C19: getVacationYearForDate maps a date in September-December to its
\* calendar year and a date in January-August to the year before.
C19_HomePeriod ==
  (call.fn = "getVacationYearForDate" /\ ret # <<>>) =>
    LET year == call.args[1] \div 10000
        month == (call.args[1] \div 100) % 100
    IN /\ (month >= 9) => ret[1] = year
       /\ (month <= 8) => ret[1] = year - 1

\* The call for Aug 31 2025 has returned period 2024.
C19_Witness ==
  /\ call.fn = "getVacationYearForDate"
  /\ call.args[1] = 20250831
  /\ ret = <<2024>>

\* The events of the walk's timeline dated up to D, of a kind, for the
\* vacation year at index i (from 0).
EventsUpTo(D, kind, i) ==
  {k \in 1..Len(events) :
     events[k].date <= D /\ events[k].kind = kind /\ events[k].yearIndex = i}

\* C20: when the walk allocates the unit of a consumed date D, every event
\* dated <= D has been applied once and no event dated > D: the events
\* before eventIdx are those dated <= D, each year's earned and extra are
\* the sums of its 'earn' and 'extra' events dated <= D, a year is expired
\* iff its expiry is dated <= D, and the allocation takes nothing from an
\* expired year.
C20_EventsBeforeAllocation ==
  [][WalkAllocates =>
       LET D == sortedSelected[selIdx]
       IN /\ \A k \in 1..Len(events) : (k < eventIdx) <=> (events[k].date <= D)
          /\ \A i \in 1..Len(vacationYears) :
               /\ vacationYears[i].earned =
                    MonthlyEarn * Cardinality(EventsUpTo(D, "earn", i - 1))
               /\ vacationYears[i].extra =
                    cfg.extraDaysCount * Cardinality(EventsUpTo(D, "extra", i - 1))
               /\ vacationYears[i].expired <=> (EventsUpTo(D, "expiry", i - 1) # {})
               /\ vacationYears[i].expired =>
                    vacationYears'[i].used = vacationYears[i].used
    ]_vars

\* The date 2026-01-01 has been allocated: period 2024 had expired that day
\* and transferred to period 2025, which had its January accrual and gave
\* the unit.
C20_Witness ==
  /\ selIdx > 1
  /\ sortedSelected[selIdx - 1] = 20260101
  /\ Len(vacationYears) = 2
  /\ vacationYears[1].expired
  /\ vacationYears[2].transferred > 0
  /\ vacationYears[2].earned = 5 * MonthlyEarn
  /\ vacationYears[2].used >= OneDay

\* C21: buildTimelineEvents returns its events sorted by date ascending,
\* and among events of the same date every earn or extra event precedes
\* every expiry event.
C21_TimelineSorted ==
  (call.fn = "buildTimelineEvents" /\ ret # <<>>) =>
    \A j, k \in 1..Len(ret[1]) :
      j < k =>
        /\ ret[1][j].date <= ret[1][k].date
        /\ (ret[1][j].date = ret[1][k].date /\ ret[1][j].kind = "expiry") =>
             ret[1][k].kind = "expiry"

\* A timeline has been returned in which an earn event, an extra event and
\* an expiry event have the same date.
C21_Witness ==
  /\ call.fn = "buildTimelineEvents"
  /\ ret # <<>>
  /\ \E j, k, l \in 1..Len(ret[1]) :
       /\ ret[1][j].kind = "earn" /\ ret[1][k].kind = "extra" /\ ret[1][l].kind = "expiry"
       /\ ret[1][j].date = ret[1][l].date
       /\ ret[1][k].date = ret[1][l].date
       /\ j < l /\ k < l

\* The events of the timeline evs of a kind for the vacation year at index
\* i (from 0).
EventsOf(evs, kind, i) ==
  {k \in 1..Len(evs) : evs[k].kind = kind /\ evs[k].yearIndex = i}

\* The first day of the month of index k (months counted from year 0).
MonthStart(k) == MkDate(k \div 12, (k % 12) + 1, 1)

\* C22: for every period P of a run the timeline has exactly one expiry
\* event, dated Jan 1 of P + 2, and exactly one earn event on the first day
\* of each month from max(Sep of P, the month of the employment start) to
\* Aug of P + 1, all dated before the period's expiry event.
C22_EarnAndExpiryEvents ==
  (call.fn = "buildTimelineEvents" /\ ret # <<>>) =>
    \A i \in 0..(call.args[2] - 1) :
      LET P == call.args[1] + i
          evs == ret[1]
          earn == EventsOf(evs, "earn", i)
          months == Max(P * 12 + 8, MonthIndex(call.args[4]))..(P * 12 + 19)
      IN /\ Cardinality(EventsOf(evs, "expiry", i)) = 1
         /\ \A k \in EventsOf(evs, "expiry", i) : evs[k].date = MkDate(P + 2, 1, 1)
         /\ Cardinality(earn) = Cardinality(months)
         /\ {evs[k].date : k \in earn} = {MonthStart(m) : m \in months}
         /\ \A k \in earn : evs[k].date < MkDate(P + 2, 1, 1)

\* A timeline for an employment start in the middle of August has been
\* returned: one earn event for the first period, twelve for the second.
C22_Witness ==
  /\ call.fn = "buildTimelineEvents"
  /\ ret # <<>>
  /\ call.args[4] % 100 = 15
  /\ call.args[2] >= 2
  /\ Cardinality(EventsOf(ret[1], "earn", 0)) = 1
  /\ Cardinality(EventsOf(ret[1], "earn", 1)) = 12

\* A step of the batch walk applies the event at eventIdx.
WalkApplies == pc = "walk" /\ eventIdx' = eventIdx + 1

\* What a step of the run may do to the `transferred` of the ledgers: it
\* changes only when the expiry event of the predecessor is applied, the
\* predecessor not being expired yet and the field still 0; and the expiry
\* of a ledger with balance b > 0 and a successor leaves min(b, cap) there.
TransferStep ==
  \A k \in 1..Len(vacationYears) :
    /\ vacationYears'[k].transferred # vacationYears[k].transferred =>
         /\ WalkApplies
         /\ events[eventIdx].kind = "expiry"
         /\ events[eventIdx].yearIndex + 2 = k
         /\ ~vacationYears[k - 1].expired
         /\ vacationYears[k].transferred = 0
    /\ (WalkApplies /\ events[eventIdx].kind = "expiry"
        /\ events[eventIdx].yearIndex + 1 = k) =>
         /\ ~vacationYears[k].expired
         /\ (LedgerBalance(vacationYears, k) > 0 /\ k < Len(vacationYears)) =>
              vacationYears'[k + 1].transferred =
                Min(LedgerBalance(vacationYears, k), cfg.maxTransferDays)

\* C23: in the batch evaluator the `transferred` of every ledger is between
\* 0 and the transfer cap in every reachable state and is set at most once,
\* by the expiry of its predecessor; the expiry of a period with balance
\* b > 0 and a successor sets the successor's `transferred` to min(b, cap).
C23_TransferredSetOnce ==
  /\ [](\A k \in 1..Len(vacationYears) :
          /\ 0 <= vacationYears[k].transferred
          /\ vacationYears[k].transferred <= cfg.maxTransferDays)
  /\ [][TransferStep]_vars

\* A period expired with a balance below the cap after days were taken from
\* it, and its successor carries that balance.
C23_Witness ==
  /\ Len(vacationYears) >= 2
  /\ vacationYears[1].expired
  /\ vacationYears[1].used > 0
  /\ vacationYears[2].transferred > 0
  /\ vacationYears[2].transferred < cfg.maxTransferDays
  /\ vacationYears[2].transferred = LedgerBalance(vacationYears, 1)

\* C24: in the batch evaluator `expired` only changes from false to true,
\* `used` never decreases, and the `earned`, `extra` and `used` of an
\* expired ledger do not change for the rest of the run.
C24_ExpiredLedgerFrozen ==
  [][\A k \in 1..Len(vacationYears) :
       /\ vacationYears[k].expired => vacationYears'[k].expired
       /\ vacationYears'[k].used >= vacationYears[k].used
       /\ vacationYears[k].expired =>
            /\ vacationYears'[k].earned = vacationYears[k].earned
            /\ vacationYears'[k].extra = vacationYears[k].extra
            /\ vacationYears'[k].used = vacationYears[k].used]_vars

\* A date has been charged to the second ledger after the first expired
\* with days left on it.
C24_Witness ==
  /\ Len(vacationYears) >= 2
  /\ vacationYears[1].expired
  /\ vacationYears[1].earned + vacationYears[1].extra - vacationYears[1].used > 0
  /\ vacationYears[2].used > 0
  /\ selIdx > Len(sortedSelected)

\* The arrays holding the elements of the array a (all different) in some
\* order.
Reorderings(a) == {p \in [1..Len(a) -> Range(a)] : Range(p) = Range(a)}

\* What the exported functions return when their array argument is given in
\* another order.
OrderIndependent ==
  /\ (call.fn = "computeAllStatuses" /\ ret # <<>>) =>
       \A p \in Reorderings(call.args[1].selectedDates) :
         computeAllStatuses([call.args[1] EXCEPT !.selectedDates = p]) = ret[1]
  /\ (call.fn = "getVacationYearBalances" /\ ret # <<>>) =>
       \A p \in Reorderings(call.args[5]) :
         getVacationYearBalances(call.args[1], call.args[2], call.args[3], call.args[4],
                                 p, call.args[6], call.args[7], call.args[8]) = ret[1]
  /\ (call.fn = "classifyStaticDates" /\ ret # <<>>) =>
       /\ \A q \in Reorderings(call.args[1]) :
            ClassifyLoop(q, call.args[2], call.args[3], call.args[4],
                         [k \in {} |-> "normal"]) = ret[1]
       /\ ret[1] = classifyStaticDates(Range(call.args[1]), call.args[2], call.args[3],
                                       call.args[4])

\* C25: computeAllStatuses and getVacationYearBalances return the same
\* result for every permutation of selectedDates, classifyStaticDates (the
\* one reader of `dates`) the same for every permutation of dates, and a
\* call leaves the arrays it was given as they were.
C25_OrderIndependent == [](OrderIndependent) /\ [][call' = call]_vars

\* computeAllStatuses has returned for three selected dates given in
\* descending order, the last of them leaving a ledger overdrawn.
C25_Witness ==
  /\ call.fn = "computeAllStatuses"
  /\ ret # <<>>
  /\ Len(call.args[1].selectedDates) = 3
  /\ call.args[1].selectedDates[1] > call.args[1].selectedDates[2]
  /\ call.args[1].selectedDates[2] > call.args[1].selectedDates[3]
  /\ ret[1].result[call.args[1].selectedDates[1]] = "selected-overdrawn"
  /\ ret[1].result[call.args[1].selectedDates[3]] = "selected-ok"

\* The allowances the run's configuration is compared under.
AdvanceLadder == {Finite(0), Finite(100), Finite(200)}

\* What computeAllStatuses returns for the run's configuration with the
\* allowance a in place of its own.
WithAdvance(a) == computeAllStatuses([cfg EXCEPT !.advanceDays = a])

\* C26: for the same inputs and allowances a <= a2 the two status maps are
\* the same except that a date selected-overdrawn under a may be
\* selected-warning under a2, and the ledgers are the same.
C26_AdvanceOnlyRelaxes ==
  (pc = "returned") =>
    \A a2 \in AdvanceLadder :
      (cfg.advanceDays.v <= a2.v) =>
        LET other == WithAdvance(a2)
        IN /\ other.vacationYears = vacationYears
           /\ DOMAIN other.result = DOMAIN result
           /\ \A d \in DOMAIN result :
                \/ other.result[d] = result[d]
                \/ /\ result[d] = "selected-overdrawn"
                   /\ other.result[d] = "selected-warning"

\* A run without allowance has returned with two dates overdrawn; with an
\* allowance of one day the first is a warning and the second still
\* overdrawn.
C26_Witness ==
  /\ pc = "returned"
  /\ cfg.advanceDays = Finite(0)
  /\ \E d, e \in DOMAIN result :
       /\ result[d] = "selected-overdrawn"
       /\ result[e] = "selected-overdrawn"
       /\ WithAdvance(Finite(100)).result[d] = "selected-warning"
       /\ WithAdvance(Finite(100)).result[e] = "selected-overdrawn"

\* C27: every expiry event the batch evaluator applies belongs to a ledger
\* that has a successor, and the last ledger the snapshot works on and
\* returns is never expired.
C27_LastLedgerNeverExpires ==
  /\ []((pc \in {"snapshot", "snapshot-returned"} /\ balances # <<>>) =>
          ~balances[Len(balances)].expired)
  /\ []((vacationYears # <<>>) => ~vacationYears[Len(vacationYears)].expired)
  /\ [][(WalkApplies /\ events[eventIdx].kind = "expiry") =>
          events[eventIdx].yearIndex + 1 < Len(vacationYears)]_vars

\* Both evaluators have run past the expiry of the first period: its ledger
\* is expired in the batch walk and in the snapshot, the last ledger in
\* neither.
C27_Witness ==
  /\ pc = "snapshot-returned"
  /\ Len(vacationYears) >= 2
  /\ vacationYears[1].expired
  /\ Len(balances) >= 2
  /\ balances[1].expired

\* What computeAllStatuses returns for the run's configuration with the
\* selected dates later than D left out.
WithSelectedUpTo(D) ==
  computeAllStatuses([cfg EXCEPT !.selectedDates = SelectSeq(cfg.selectedDates, LAMBDA d : d <= D)])

\* C28: the status of a consumed date D depends only on the configuration
\* and the consumed dates <= D: the run without the selected dates later
\* than D gives D the same status.
C28_LaterDatesDoNotMatter ==
  (pc = "returned") =>
    \A k \in 1..Len(sortedSelected) :
      WithSelectedUpTo(sortedSelected[k]).result[sortedSelected[k]] = result[sortedSelected[k]]

\* The same of the consumed dates on or after the employment start alone.
LaterDatesDoNotMatterFromStart ==
  (pc = "returned") =>
    \A k \in 1..Len(sortedSelected) :
      (sortedSelected[k] >= cfg.startDate) =>
        WithSelectedUpTo(sortedSelected[k]).result[sortedSelected[k]] = result[sortedSelected[k]]

\* C29: a selected date earlier than the employment start that is no
\* holiday is reported before-start (when it is among `dates`) and both
\* evaluators still allocate one unit for it.
C29_BeforeStartStillConsumes ==
  [][/\ (WalkAllocates /\ sortedSelected[selIdx] < cfg.startDate) =>
          /\ SumUsed(vacationYears') = SumUsed(vacationYears) + OneDay
          /\ (sortedSelected[selIdx] \in cfg.dates) =>
               result'[sortedSelected[selIdx]] = "before-start"
     /\ (SnapshotAllocates /\ usedDates[usedIdx] < cfg.startDate) =>
          SumUsed(balances') = SumUsed(balances) + OneDay]_vars

\* The same of the runs that have a ledger.
BeforeStartConsumesWithLedger ==
  [][/\ (WalkAllocates /\ sortedSelected[selIdx] < cfg.startDate /\ vacationYears # <<>>) =>
          /\ SumUsed(vacationYears') = SumUsed(vacationYears) + OneDay
          /\ (sortedSelected[selIdx] \in cfg.dates) =>
               result'[sortedSelected[selIdx]] = "before-start"
     /\ (SnapshotAllocates /\ usedDates[usedIdx] < cfg.startDate /\ balances # <<>>) =>
          SumUsed(balances') = SumUsed(balances) + OneDay]_vars

\* The step is the upload of client c's debounced auto-sync.
AutoUploads(c) == syncTask[c] = "uploading" /\ syncTask'[c] # "uploading"

\* C30: a client's auto-sync uploads only if the cloud generation still
\* equals the generation the client last synced; when its check finds
\* another generation it raises the conflict and leaves the cloud file
\* unchanged, and the file stays unchanged by that client until the user
\* chooses upload or download.
C30_NoSilentOverwrite ==
  [][\A c \in Clients :
       /\ AutoUploads(c) => generationRef[c] = cloud.generation
       /\ (syncTask[c] = "checking" /\ syncTask'[c] = "idle") =>
            (syncConflict'[c] /\ cloud' = cloud)
       /\ syncConflict[c] => ~AutoUploads(c)]_vars

\* The same of the uploads of a client that holds a generation, i.e. has not
\* reset its state since it last synced.
UploadAtHeldGeneration ==
  [][\A c \in Clients :
       (AutoUploads(c) /\ generationRef[c] # Null) => generationRef[c] = cloud.generation]_vars

\* What the check of the generation does, taken alone: on finding another
\* generation than the expected one it raises the conflict, leaves the file
\* unchanged and starts no upload.
ConflictRaisedOnMismatch ==
  [][\A c \in Clients :
       /\ (syncTask[c] = "checking" /\ syncTask'[c] # "checking"
           /\ generationRef[c] # Null /\ generationRef[c] # cloud.generation) =>
             (syncConflict'[c] /\ cloud' = cloud /\ syncTask'[c] = "idle")
       /\ syncConflict[c] => ~AutoUploads(c)]_vars

====
